---- MODULE Spec2Model ----
(***************************************************************************)
(* Shock-propagation solver, attribution engine and matrix cache of the    *)
(* vesdio dashboard (src/src/scenario_modeler.py, src/src/callbacks.py,    *)
(* src/app.py).                                                            *)
(*                                                                         *)
(* Numbers are exact rationals <<n, d>> in lowest terms with d > 0: the    *)
(* double-precision rounding of numpy is abstracted, so an equality of the *)
(* model is an equality "within floating tolerance" of the program.        *)
(* Labelled frames (pandas DataFrame / Series) are functions over the      *)
(* positions 1..N of the label universe; a positional numpy block is a     *)
(* sequence of rows.                                                       *)
(***************************************************************************)
EXTENDS Integers, Sequences, FiniteSets, TLC

\* ------------------------------------------------------------------ bounds
\* Largest number of elementary shocks in a shock set handed to the solver.
MaxShocks == 2
\* Number of request-handling threads of the web server.
NumThreads == 2
\* the longest holdings list
MaxHoldings == 2
\* the longest list the scenario store gets to hold
MaxStore == 2

\* ------------------------------------------------------- exact arithmetic
Abs(n) == IF n < 0 THEN -n ELSE n

RECURSIVE GCD(_, _)
GCD(a, b) == IF b = 0 THEN a ELSE GCD(b, a % b)

\* The rational n/d (d # 0) in lowest terms with a positive denominator.
Rat(n, d) ==
    LET g == GCD(Abs(n), Abs(d))
        s == IF d < 0 THEN -1 ELSE 1
    IN  <<(s * n) \div g, (s * d) \div g>>

Zero == <<0, 1>>
One == <<1, 1>>

\* the sum over the least common denominator
RAdd(a, b) ==
    LET g == GCD(a[2], b[2])
    IN  Rat(a[1] * (b[2] \div g) + b[1] * (a[2] \div g), (a[2] \div g) * b[2])
RSub(a, b) == RAdd(a, <<-b[1], b[2]>>)
\* the product, common factors cancelled before multiplying
RMul(a, b) ==
    LET g == GCD(Abs(a[1]), b[2])
        h == GCD(Abs(b[1]), a[2])
    IN  Rat((a[1] \div g) * (b[1] \div h), (a[2] \div h) * (b[2] \div g))
RDiv(a, b) ==
    IF b[1] < 0 THEN RMul(a, <<-b[2], -b[1]>>) ELSE RMul(a, <<b[2], b[1]>>)
RNeg(a) == <<-a[1], a[2]>>
RAbs(a) == <<Abs(a[1]), a[2]>>
RLess(a, b) == a[1] * b[2] < b[1] * a[2]

\* sum of f[i] over the positions lo..hi
RECURSIVE RSum(_, _, _)
RSum(f, lo, hi) == IF lo > hi THEN Zero ELSE RAdd(f[lo], RSum(f, lo + 1, hi))

\* ------------------------------------------------------- dense blocks
\* A vector / a block as an explicit sequence (of sequences): the values are
\* computed once, when the array is created, as numpy does.
Vector(v) == SubSeq(v, 1, Len(v))
Matrix(M) == Vector([i \in 1..Len(M) |-> Vector(M[i])])

\* numpy's `P @ Q` for blocks given as sequences of rows; ncols is the
\* column count of Q (a block with no rows does not carry it).
MatMul(P, Q, ncols) ==
    Matrix([i \in 1..Len(P) |->
        [j \in 1..ncols |->
            RSum([k \in 1..Len(Q) |-> RMul(P[i][k], Q[k][j])], 1, Len(Q))]])

\* numpy's `M @ v` for a vector v
MatVec(M, v) ==
    Vector([i \in 1..Len(M) |->
        RSum([k \in 1..Len(v) |-> RMul(M[i][k], v[k])], 1, Len(v))])

\* numpy's `v @ M` (row vector times block); ncols is the column count of M
VecMat(v, M, ncols) ==
    Vector([j \in 1..ncols |->
        RSum([k \in 1..Len(v) |-> RMul(v[k], M[k][j])], 1, Len(v))])

\* M without row r and column c
Minor(M, r, c) ==
    LET n == Len(M)
        skip(k, x) == IF k < x THEN k ELSE k + 1
    IN  Matrix([i \in 1..(n - 1) |->
                [j \in 1..(n - 1) |-> M[skip(i, r)][skip(j, c)]]])

RECURSIVE Det(_)
Det(M) ==
    IF Len(M) = 0 THEN One
    ELSE IF Len(M) = 1 THEN M[1][1]
    ELSE RSum([j \in 1..Len(M) |->
                 LET t == RMul(M[1][j], Det(Minor(M, 1, j)))
                 IN  IF j % 2 = 1 THEN t ELSE RNeg(t)], 1, Len(M))

\* np.linalg.inv: the inverse of a square block, or "LinAlgError" when the
\* block is singular.
LinalgInv(M) ==
    LET d == Det(M)
        n == Len(M)
    IN  IF d = Zero THEN "LinAlgError"
        ELSE Matrix([i \in 1..n |-> [j \in 1..n |->
                LET c == RDiv(Det(Minor(M, j, i)), d)
                IN  IF (i + j) % 2 = 0 THEN c ELSE RNeg(c)]])


\* ------------------------------------------------------- label universe
\* The label universe in the order of A_df.index: (region, sector) pairs.
Labels ==
    << <<"C1", "Farming">>, <<"C1", "Food Processing">>,
       <<"C2", "Mining">>, <<"C2", "Manufacturing">> >>

N == Len(Labels)

\* Position of a label in the universe, 0 when the label is absent.
LabelPos(l) ==
    IF \E p \in 1..N : Labels[p] = l
    THEN CHOOSE p \in 1..N : Labels[p] = l
    ELSE 0

\* The positions of the universe in lexicographic label order, the order in
\* which pandas' Index.difference returns its result.
SortedLabels == <<1, 2, 4, 3>>

Identity == Matrix([i \in 1..N |-> [j \in 1..N |-> IF i = j THEN One ELSE Zero]])

\* I - M for an N x N frame
IdentityMinus(M) ==
    Matrix([i \in 1..N |-> [j \in 1..N |-> RSub(Identity[i][j], M[i][j])]])

\* ------------------------------------------------------- matrix store
\* Technical coefficients and final demand of the two periods on disk:
\* 2021 is the 2-country, 2-sector economy of the test fixture, 2020 an
\* economy with feedback loops (Farming <-> Food Processing).
CoefficientsOf(year) ==
    IF year = 2021
    THEN << <<Zero, Rat(2, 5), Zero, Rat(1, 10)>>,
            <<Zero, Zero, Zero, Zero>>,
            <<Zero, Zero, Zero, Rat(1, 2)>>,
            <<Zero, Zero, Zero, Zero>> >>
    ELSE << <<Zero, Rat(1, 2), Zero, Zero>>,
            <<Rat(1, 4), Zero, Zero, Zero>>,
            <<Zero, Zero, Zero, Rat(1, 2)>>,
            <<Rat(1, 4), Zero, Zero, Zero>> >>

FinalDemandOf(year) ==
    IF year = 2021
    THEN <<Rat(100, 1), Rat(150, 1), Rat(80, 1), Rat(200, 1)>>
    ELSE <<Rat(7, 1), Rat(14, 1), Rat(7, 1), Rat(14, 1)>>

Periods == {2020, 2021}

\* L = (I - A)^-1
calculate_leontief_inverse(A) ==
    LinalgInv(IdentityMinus(A))

\* G = (I - B)^-1 with the allocation coefficients B[i,j] = A[i,j] X[j] / X[i]
GhoshInverse(A, X) ==
    LET B == Matrix([i \in 1..N |-> [j \in 1..N |->
                    RDiv(RMul(A[i][j], X[j]), X[i])]])
    IN  LinalgInv(IdentityMinus(B))

\* The dataset of a period: a consistent baseline X = L Y.
Dataset(year) ==
    LET A == CoefficientsOf(year)
        Y == FinalDemandOf(year)
        L == calculate_leontief_inverse(A)
        X == MatVec(L, Y)
    IN  [A |-> A, X |-> X, Y |-> Y, L |-> L, G |-> GhoshInverse(A, X)]

Dataset2020 == Dataset(2020)
Dataset2021 == Dataset(2021)

\* A period without final demand: X = L Y = 0 in every sector. Its G is not
\* read: the period is solved under the Leontief closure only.
IdlePeriod == 2019

IdleDataset ==
    LET A == CoefficientsOf(2021)
        Y == Vector([p \in 1..N |-> Zero])
        L == calculate_leontief_inverse(A)
    IN  [A |-> A, X |-> MatVec(L, Y), Y |-> Y, L |-> L, G |-> "None"]

\* load_mrio_matrices(year, ['A', 'X', 'Y', 'L', 'G']): what the parquet files
\* of the period hold.
load_mrio_matrices(year) ==
    IF year = 2021 THEN Dataset2021
    ELSE IF year = IdlePeriod THEN IdleDataset
    ELSE Dataset2020

\* ------------------------------------------------------- propagation solver
\* An elementary shock is a record [region, sector, magnitude]; a shock set
\* (shock_maps) is a sequence of them.
ShockLabel(shock) == <<shock.region, shock.sector>>

Range(seq) == {seq[k] : k \in 1..Len(seq)}

\* exogenous_labels, as positions of the universe in shock order (a label
\* that is not in the universe has position 0 and makes .loc raise KeyError).
exogenous_labels(shock_maps) ==
    Vector([k \in 1..Len(shock_maps) |-> LabelPos(ShockLabel(shock_maps[k]))])

\* endogenous_labels = all_labels.difference(exogenous_labels)
endogenous_labels(shock_maps) ==
    LET exo == Range(exogenous_labels(shock_maps))
    IN  SelectSeq(SortedLabels, LAMBDA p : p \notin exo)

\* the magnitude itself taken as the factor that is kept
reduction_factor_is_magnitude(magnitude) == magnitude

\* reduction_factor = 1.0 - shock['magnitude']
reduction_factor(magnitude) == RSub(One, magnitude)

\* x_m_new.loc[shock_label] *= reduction_factor, for the shocks i..Len in
\* order, as seen by one row of x_m_new: the row (value v, label position p)
\* is scaled by every shock that carries its label.
RECURSIVE ApplyReductions(_, _, _, _, _)
ApplyReductions(v, p, exo, shock_maps, i) ==
    IF i > Len(shock_maps) THEN v
    ELSE ApplyReductions(
            IF exo[i] = p
            THEN RMul(v, reduction_factor(shock_maps[i].magnitude))
            ELSE v,
            p, exo, shock_maps, i + 1)

\* x_m_new *= reduction_factor without .loc[shock_label]: every shocked row
\* is scaled by every shock
x_m_new_every_row(X, shock_maps) ==
    LET exo == exogenous_labels(shock_maps)
    IN  Vector([k \in 1..Len(exo) |->
            ApplyReductions(X[exo[k]], exo[1], [i \in 1..Len(exo) |-> exo[1]],
                            shock_maps, 1)])

\* x_m_new: the copy of the shocked rows of X after all reductions.
x_m_new(X, shock_maps) ==
    LET exo == exogenous_labels(shock_maps)
    IN  Vector([k \in 1..Len(exo) |->
            ApplyReductions(X[exo[k]], exo[k], exo, shock_maps, 1)])

\* frame.loc[rows, cols].to_numpy()
Block(M, rows, cols) ==
    Matrix([i \in 1..Len(rows) |-> [j \in 1..Len(cols) |-> M[rows[i]][cols[j]]]])

\* series.loc[rows].to_numpy()
Rows(v, rows) == Vector([i \in 1..Len(rows) |-> v[rows[i]]])

\* the endogenous block of L taken as it is
endogenous_leontief_inv_uncorrected(L, shock_maps) ==
    LET endo == endogenous_labels(shock_maps)
    IN  IF LinalgInv(Block(L, exogenous_labels(shock_maps),
                           exogenous_labels(shock_maps))) = "LinAlgError"
        THEN "LinAlgError"
        ELSE Block(L, endo, endo)

\* endogenous_leontief_inv = L_nn - L_nm @ inv(L_mm) @ L_mn
endogenous_leontief_inv(L, shock_maps) ==
    LET exo == exogenous_labels(shock_maps)
        endo == endogenous_labels(shock_maps)
        L_nn == Block(L, endo, endo)
        L_nm == Block(L, endo, exo)
        L_mn == Block(L, exo, endo)
        L_mm_inv == LinalgInv(Block(L, exo, exo))
    IN  IF L_mm_inv = "LinAlgError" THEN "LinAlgError"
        ELSE LET corr == MatMul(MatMul(L_nm, L_mm_inv, Len(exo)), L_mn, Len(endo))
             IN  Matrix([i \in 1..Len(endo) |-> [j \in 1..Len(endo) |->
                    RSub(L_nn[i][j], corr[i][j])]])

\* delta_x_m = x_m_new - x_m_old
delta_x_m(X, xm, shock_maps) ==
    LET exo == exogenous_labels(shock_maps)
    IN  Vector([k \in 1..Len(exo) |-> RSub(xm[k], X[exo[k]])])

\* A_nm @ delta_x_m: the block of the inputs the shocked sectors buy
unavailable_inputs_from_A_nm(A, dxm, shock_maps) ==
    LET exo == exogenous_labels(shock_maps)
        endo == endogenous_labels(shock_maps)
    IN  Vector([j \in 1..Len(endo) |->
            RSum([k \in 1..Len(exo) |-> RMul(A[endo[j]][exo[k]], dxm[k])],
                 1, Len(exo))])

\* unavailable_inputs = A_mn.T @ delta_x_m
unavailable_inputs(A, dxm, shock_maps) ==
    LET exo == exogenous_labels(shock_maps)
        endo == endogenous_labels(shock_maps)
    IN  Vector([j \in 1..Len(endo) |->
            RSum([k \in 1..Len(exo) |-> RMul(A[exo[k]][endo[j]], dxm[k])],
                 1, Len(exo))])

\* pd.concat([x_n_new, x_m_new]).reindex(X_df.index) - X_df['GrossOutput']
AssembleDelta(X, x_n, xm, shock_maps) ==
    LET exo == exogenous_labels(shock_maps)
        endo == endogenous_labels(shock_maps)
        at(p) == IF \E k \in 1..Len(exo) : exo[k] = p
                 THEN xm[CHOOSE k \in 1..Len(exo) : exo[k] = p]
                 ELSE x_n[CHOOSE k \in 1..Len(endo) : endo[k] = p]
    IN  Vector([p \in 1..N |-> RSub(at(p), X[p])])

\* x_n_new = endogenous_leontief_inv @ (y_n + unavailable_inputs), then delta_x
LeontiefDelta(A, X, Y, red, xm, shock_maps) ==
    LET endo == endogenous_labels(shock_maps)
        y_n == Rows(Y, endo)
        un == unavailable_inputs(A, delta_x_m(X, xm, shock_maps), shock_maps)
        x_n == MatVec(red, Vector([j \in 1..Len(endo) |-> RAdd(y_n[j], un[j])]))
    IN  AssembleDelta(X, x_n, xm, shock_maps)

\* delta_y_req = (I - A) @ delta_x
delta_y_req(A, dx) ==
    MatVec(IdentityMinus(A), dx)

\* G_mm_inv = np.linalg.inv(G_mm)
G_mm_inv(G, shock_maps) ==
    LET exo == exogenous_labels(shock_maps)
    IN  LinalgInv(Block(G, exo, exo))

\* delta_x_n = delta_x_m' @ G_mm_inv @ G_mn; x_n_new = x_n_old + delta_x_n
\* the exogenous delta passed on through G_mn alone
GhoshDeltaUnscaled(X, G, gmi, xm, shock_maps) ==
    LET exo == exogenous_labels(shock_maps)
        endo == endogenous_labels(shock_maps)
        dxn == VecMat(delta_x_m(X, xm, shock_maps), Block(G, exo, endo), Len(endo))
    IN  AssembleDelta(X, Vector([j \in 1..Len(endo) |-> RAdd(X[endo[j]], dxn[j])]),
                      xm, shock_maps)

GhoshDelta(X, G, gmi, xm, shock_maps) ==
    LET exo == exogenous_labels(shock_maps)
        endo == endogenous_labels(shock_maps)
        G_mn == Block(G, exo, endo)
        dxn == VecMat(VecMat(delta_x_m(X, xm, shock_maps), gmi, Len(exo)),
                      G_mn, Len(endo))
        x_n == Vector([j \in 1..Len(endo) |-> RAdd(X[endo[j]], dxn[j])])
    IN  AssembleDelta(X, x_n, xm, shock_maps)

\* ------------------------------------------------------- attribution engine
\* f"{label[0]} - {label[1]}"
LabelStr(l) == l[1] \o " - " \o l[2]

\* 1e-10 = 1 / (ToleranceRoot * ToleranceRoot)
ToleranceRoot == 100000

\* total_impact < 1e-10 for a non-negative rational n/d, without forming
\* 10^10: n * 10^10 < d.
BelowTolerance(v) ==
    LET q == v[2] \div ToleranceRoot
        r == v[2] % ToleranceRoot
    IN  /\ v[1] < ToleranceRoot
        /\ v[1] * ToleranceRoot < q + (IF r > 0 THEN 1 ELSE 0)

\* d[key] = value on an insertion-ordered dict, kept as a sequence of
\* [label, value] records: an existing key keeps its place.
DictSet(d, key, value) ==
    IF \E k \in 1..Len(d) : d[k].label = key
    THEN Vector([k \in 1..Len(d) |->
            IF d[k].label = key THEN [label |-> key, value |-> value] ELSE d[k]])
    ELSE Append(d, [label |-> key, value |-> value])

\* initial_shocks = delta_x[delta_x.index.isin(shock_labels)].abs(): the
\* positions of the universe, in universe order, that carry a shocked label.
initial_shocks(shock_maps) ==
    LET exo == Range(exogenous_labels(shock_maps))
    IN  SelectSeq(Vector([p \in 1..N |-> p]), LAMBDA p : p \in exo)

\* the inverse read the other way round: L[s, t], G[t, s], A[t, s]
contribution_transposed(model_method, dx, s, t, L_df, G_df, A_df) ==
    IF model_method = "leontief" /\ L_df # "None"
    THEN RMul(L_df[s][t], RAbs(dx[s]))
    ELSE IF model_method = "ghosh" /\ G_df # "None"
    THEN RMul(G_df[t][s], RAbs(dx[s]))
    ELSE RMul(A_df[t][s], RAbs(dx[s]))

\* contribution of the shock at position s to the home position t
contribution(model_method, dx, s, t, L_df, G_df, A_df) ==
    IF model_method = "leontief" /\ L_df # "None"
    THEN RMul(L_df[t][s], RAbs(dx[s]))
    ELSE IF model_method = "ghosh" /\ G_df # "None"
    THEN RMul(G_df[s][t], RAbs(dx[s]))
    ELSE RMul(A_df[s][t], RAbs(dx[s]))

\* the loop filling impact_causes over initial_shocks[i..]
RECURSIVE FillCauses(_, _, _, _, _, _, _, _, _)
FillCauses(d, shocked, i, model_method, dx, t, L_df, G_df, A_df) ==
    IF i > Len(shocked) THEN d
    ELSE FillCauses(
            DictSet(d, LabelStr(Labels[shocked[i]]),
                    contribution(model_method, dx, shocked[i], t, L_df, G_df, A_df)),
            shocked, i + 1, model_method, dx, t, L_df, G_df, A_df)

\* impact_causes: empty when no branch applies (no usable matrix supplied)
impact_causes(model_method, dx, shock_maps, t, L_df, G_df, A_df) ==
    IF \/ model_method = "leontief" /\ L_df # "None"
       \/ model_method = "ghosh" /\ G_df # "None"
       \/ A_df # "None"
    THEN FillCauses(<< >>, initial_shocks(shock_maps), 1, model_method, dx, t,
                    L_df, G_df, A_df)
    ELSE << >>

\* external_causes = {k: v for k, v in impact_causes.items() if k != home_label_str}
external_causes(causes, home_label) ==
    SelectSeq(causes, LAMBDA c : c.label # LabelStr(home_label))

\* sum(external_causes.values())
RECURSIVE SumValues(_, _)
SumValues(d, i) == IF i > Len(d) THEN Zero ELSE RAdd(d[i].value, SumValues(d, i + 1))

\* sorted(items, key=lambda item: item[1])[::-1]: an ascending sort turned
\* round, which also turns round the items of equal value
RECURSIVE SortedAscendingReversed(_)
SortedAscendingReversed(d) ==
    IF Len(d) <= 1 THEN d
    ELSE LET head == SortedAscendingReversed(SubSeq(d, 1, Len(d) - 1))
             last == d[Len(d)]
             keep == Cardinality({k \in 1..Len(head) :
                        RLess(last.value, head[k].value)})
         IN  SubSeq(head, 1, keep) \o <<last>> \o SubSeq(head, keep + 1, Len(head))

\* sorted(items, key=lambda item: item[1], reverse=True): a stable sort,
\* descending; items with equal value keep their order.
RECURSIVE SortedDescending(_)
SortedDescending(d) ==
    IF Len(d) <= 1 THEN d
    ELSE LET head == SortedDescending(SubSeq(d, 1, Len(d) - 1))
             last == d[Len(d)]
             \* last goes behind every item that is not smaller than it
             keep == Cardinality({k \in 1..Len(head) :
                        ~RLess(head[k].value, last.value)})
         IN  SubSeq(head, 1, keep) \o <<last>> \o SubSeq(head, keep + 1, Len(head))

\* (impact / total_attributed_external) * 100 if total_attributed_external > 0 else 0
Percentage(impact, total) ==
    IF RLess(Zero, total) THEN RMul(RDiv(impact, total), Rat(100, 1)) ELSE Zero

\* attribute_output_change: the returned dict, "causes" as the sequence of
\* its items in dict order.
attribute_output_change(model_method, dx, shock_maps, home_label, L_df, G_df, A_df) ==
    LET t == LabelPos(home_label)
        total_impact == RAbs(dx[t])
    IN  IF BelowTolerance(total_impact)
        THEN [total_impact |-> Zero, causes |-> << >>,
              message |-> "No significant output change in your home sector."]
        ELSE LET ext == external_causes(
                            impact_causes(model_method, dx, shock_maps, t,
                                          L_df, G_df, A_df), home_label)
                 total == SumValues(ext, 1)
                 ordered == SortedDescending(ext)
             IN  [total_impact |-> total_impact,
                  causes |-> Vector([k \in 1..Len(ordered) |->
                                [label |-> ordered[k].label,
                                 value |-> Percentage(ordered[k].value, total)]]),
                  message |-> "Change in Gross Output for " \o home_label[2]]

\* ------------------------------------------------------- scenario files
\* A YAML text is kept as its node structure: a document is a record
\* [kind, items], kind "sequence" for a block sequence of mappings (any other
\* kind is a text that is no list of mappings, or no YAML at all), items the
\* mappings, each a sequence of [key, node] pairs; a scalar node is
\* [style, chars, num], style "plain" or "single" (quoted), num the number a
\* numeral spells and chars "" for it.
NoFile == [kind |-> "None"]

\* the values yaml.safe_load gives the plain scalars of the bool type
PyTrue == "!!bool True"
PyFalse == "!!bool False"

YamlTrueWords == {"yes", "Yes", "YES", "true", "True", "TRUE", "on", "On", "ON"}
YamlFalseWords == {"no", "No", "NO", "false", "False", "FALSE", "off", "Off", "OFF"}

StrNode(style, chars) == [style |-> style, chars |-> chars, num |-> Zero]
NumNode(v) == [style |-> "plain", chars |-> "", num |-> v]

\* the implicit resolver of the loader: the value of a scalar node
construct_scalar(node) ==
    IF node.style # "plain" THEN node.chars
    ELSE IF node.chars = "" THEN node.num
    ELSE IF node.chars \in YamlTrueWords THEN PyTrue
    ELSE IF node.chars \in YamlFalseWords THEN PyFalse
    ELSE node.chars

\* every string written as a plain scalar
represent_str_plain(value) ==
    IF value = PyTrue THEN StrNode("plain", "true")
    ELSE IF value = PyFalse THEN StrNode("plain", "false")
    ELSE StrNode("plain", value)

\* the representer and emitter for str and bool: a string is quoted when
\* its plain form would be resolved to another type
represent_str(value) ==
    IF value = PyTrue THEN StrNode("plain", "true")
    ELSE IF value = PyFalse THEN StrNode("plain", "false")
    ELSE IF value \in YamlTrueWords \cup YamlFalseWords
    THEN StrNode("single", value)
    ELSE StrNode("plain", value)

\* yaml.dump(scenario_data, default_flow_style=False, sort_keys=False)
yaml_dump(scenario_data) ==
    [kind |-> "sequence",
     items |-> Vector([k \in 1..Len(scenario_data) |->
        <<[key |-> "region", node |-> represent_str(scenario_data[k].region)],
          [key |-> "sector", node |-> represent_str(scenario_data[k].sector)],
          [key |-> "magnitude", node |-> NumNode(scenario_data[k].magnitude)]>>])]

Keys(entry) == {entry[i].key : i \in 1..Len(entry)}

\* the value of a key in a loaded mapping: the last pair of the key
ValueOf(entry, key) ==
    LET last == CHOOSE i \in 1..Len(entry) :
                    /\ entry[i].key = key
                    /\ \A j \in (i + 1)..Len(entry) : entry[j].key # key
    IN  construct_scalar(entry[last].node)

\* the validation of update_scenario_store: a list whose items all have
\* the three keys
IsShockList(doc) ==
    /\ doc.kind = "sequence"
    /\ \A k \in 1..Len(doc.items) :
            {"region", "sector", "magnitude"} \subseteq Keys(doc.items[k])

\* yaml.safe_load of a valid list, as the shock records the store keeps
yaml_safe_load(doc) ==
    Vector([k \in 1..Len(doc.items) |->
        [region |-> ValueOf(doc.items[k], "region"),
         sector |-> ValueOf(doc.items[k], "sector"),
         magnitude |-> ValueOf(doc.items[k], "magnitude")]])

\* ------------------------------------------------------- scenario store
\* current_shocks.pop(index): Python positions count from 0
Pop(current_shocks, index) ==
    SubSeq(current_shocks, 1, index) \o
        SubSeq(current_shocks, index + 2, Len(current_shocks))

\* the add branch: the first shock on the key gets the magnitude, else the
\* shock is appended
\* the new shock appended whatever the store holds
AddAlwaysAppends(current_shocks, region, sector, magnitude) ==
    Append(current_shocks,
           [region |-> region, sector |-> sector, magnitude |-> magnitude])

AddOrUpdate(current_shocks, region, sector, magnitude) ==
    LET hits == {k \in 1..Len(current_shocks) :
                    /\ current_shocks[k].region = region
                    /\ current_shocks[k].sector = sector}
    IN  IF hits = {}
        THEN Append(current_shocks,
                [region |-> region, sector |-> sector, magnitude |-> magnitude])
        ELSE LET first == CHOOSE k \in hits : \A j \in hits : k <= j
             IN  [current_shocks EXCEPT ![first].magnitude = magnitude]

\* update_scenario_store: the new value of 'scenario-store'. trigger is
\* [id, index]; region, sector "" stand for an empty dropdown.
\* the value of 'builder-magnitude-input' when the field is empty (None)
NoMagnitude == << >>

update_scenario_store(trigger, contents, region, sector, magnitude, current_shocks) ==
    IF trigger.id = "clear-scenario-button" THEN << >>
    ELSE IF trigger.id = "delete-shock-button"
    THEN IF 0 <= trigger.index /\ trigger.index < Len(current_shocks)
         THEN Pop(current_shocks, trigger.index)
         ELSE current_shocks
    ELSE IF /\ trigger.id = "builder-add-shock-button"
            /\ region # "" /\ sector # "" /\ magnitude # NoMagnitude
    THEN AddOrUpdate(current_shocks, region, sector, magnitude)
    ELSE IF contents # NoFile
    THEN IF IsShockList(contents.file)
         THEN yaml_safe_load(contents.file)
         ELSE current_shocks
    ELSE current_shocks

\* export_scenario: the content of the download, nothing for an empty store
export_scenario(scenario_data) ==
    IF scenario_data = << >> THEN NoFile
    ELSE [kind |-> "download", content |-> yaml_dump(scenario_data)]

\* ------------------------------------------------------- portfolio aggregator
\* A holding is a record [region, sector, weight], the weight in percent;
\* portfolio_data is a sequence of them.
HoldingLabel(item) == <<item.region, item.sector>>

\* sum(item['weight'] for item in portfolio_data[i..]), from acc
RECURSIVE SumWeights(_, _, _)
SumWeights(portfolio_data, i, acc) ==
    IF i > Len(portfolio_data) THEN acc
    ELSE SumWeights(portfolio_data, i + 1, RAdd(acc, portfolio_data[i].weight))

total_weight(portfolio_data) == SumWeights(portfolio_data, 1, Zero)

\* the defaults of np.isclose: rtol = 1e-5 = 1 / IscloseRtolInv and
\* atol = 1e-8 = 1 / IscloseAtolInv
IscloseRtolInv == 100000
IscloseAtolInv == 100000000

\* the comparison without the relative term: |total - 100| <= atol
isclose_100_atol_only(total) ==
    LET dev == RAbs(RSub(total, Rat(100, 1)))
    IN  dev[1] <= dev[2] \div IscloseAtolInv

\* np.isclose(total, 100): |total - 100| <= atol + rtol * 100, for n/d =
\* |total - 100| decided as n <= floor((1 + 100 atol^-1 rtol) d / atol^-1)
isclose_100(total) ==
    LET dev == RAbs(RSub(total, Rat(100, 1)))
        num == 1 + 100 * (IscloseAtolInv \div IscloseRtolInv)
    IN  dev[1] <= (num * dev[2]) \div IscloseAtolInv

\* 1e-9 = 1 / EpsilonInv
EpsilonInv == 1000000000

\* v > 1e-9 for a rational n/d: n * 10^9 > d
AboveEpsilon(v) == v[1] > 0 /\ (v[1] >= 3 \/ v[1] * EpsilonInv > v[2])

\* x * 100 / base when the base is above 1e-9, else 0
RelativeChange(x, base) ==
    IF AboveEpsilon(base) THEN RMul(RDiv(x, base), Rat(100, 1)) ELSE Zero

\* the weight taken as a fraction although it is a percentage
item_weight_as_fraction(item) == item.weight

\* item_weight = item['weight'] / 100.0
item_weight(item) == RDiv(item.weight, Rat(100, 1))

\* the loop with = in place of +=: the last holding overwrites the total
RECURSIVE WeightedTotalOverwritten(_, _, _, _)
WeightedTotalOverwritten(portfolio_data, v, i, acc) ==
    IF i > Len(portfolio_data) THEN acc
    ELSE WeightedTotalOverwritten(portfolio_data, v, i + 1,
            RMul(v[LabelPos(HoldingLabel(portfolio_data[i]))],
                 item_weight(portfolio_data[i])))

\* the loop of handle_simulation_results over portfolio_data[i..]:
\* acc += v.loc[item_label] * item_weight
RECURSIVE WeightedTotal(_, _, _, _)
WeightedTotal(portfolio_data, v, i, acc) ==
    IF i > Len(portfolio_data) THEN acc
    ELSE WeightedTotal(portfolio_data, v, i + 1,
            RAdd(acc, RMul(v[LabelPos(HoldingLabel(portfolio_data[i]))],
                           item_weight(portfolio_data[i]))))

total_before_output(portfolio_data, X) == WeightedTotal(portfolio_data, X, 1, Zero)

total_delta_x(portfolio_data, dx) == WeightedTotal(portfolio_data, dx, 1, Zero)

\* create_portfolio_breakdown_display: the weighted totals of the summary
\* footer; after_val = before_val + delta_val for every holding
create_portfolio_breakdown_display(portfolio_data, dx, X) ==
    LET after == Vector([p \in 1..N |-> RAdd(X[p], dx[p])])
        total_before == WeightedTotal(portfolio_data, X, 1, Zero)
        total_after == WeightedTotal(portfolio_data, after, 1, Zero)
        total_abs_change == RSub(total_after, total_before)
    IN  [total_before |-> total_before, total_after |-> total_after,
         total_abs_change |-> total_abs_change,
         total_rel_change |-> RelativeChange(total_abs_change, total_before)]

\* the percentage a causes dict holds for a label, 0 when the label is absent
CauseValue(d, label) ==
    IF \E k \in 1..Len(d) : d[k].label = label
    THEN d[CHOOSE k \in 1..Len(d) : d[k].label = label].value
    ELSE Zero

\* sum over the holdings [i..] of weight_i / total weight times the
\* percentage of the label in the holding's own attribution
RECURSIVE WeightedCause(_, _, _, _, _)
WeightedCause(portfolio_data, vectors, label, i, acc) ==
    IF i > Len(portfolio_data) THEN acc
    ELSE WeightedCause(portfolio_data, vectors, label, i + 1,
            RAdd(acc, RMul(RDiv(portfolio_data[i].weight,
                                total_weight(portfolio_data)),
                           CauseValue(vectors[i], label))))

\* attribute_portfolio_change: the weight-normalized sum of the holdings'
\* attribution vectors, re-normalized to 100%; the zero-impact sentinel when
\* nothing is attributed.
attribute_portfolio_change(model_method, dx, shock_maps, portfolio_data, L_df, G_df, A_df) ==
    LET vectors == Vector([i \in 1..Len(portfolio_data) |->
                        attribute_output_change(model_method, dx, shock_maps,
                            HoldingLabel(portfolio_data[i]),
                            L_df, G_df, A_df).causes])
        shocked == initial_shocks(shock_maps)
        combined == Vector([k \in 1..Len(shocked) |->
                        [label |-> LabelStr(Labels[shocked[k]]),
                         value |-> WeightedCause(portfolio_data, vectors,
                                        LabelStr(Labels[shocked[k]]), 1, Zero)]])
        total == SumValues(combined, 1)
        ordered == SortedDescending(combined)
    IN  IF total = Zero
        THEN [total_impact |-> Zero, causes |-> << >>,
              message |-> "No significant output change in your portfolio."]
        ELSE [total_impact |-> RAbs(total_delta_x(portfolio_data, dx)),
              causes |-> Vector([k \in 1..Len(ordered) |->
                            [label |-> ordered[k].label,
                             value |-> Percentage(ordered[k].value, total)]]),
              message |-> "Change in Gross Output for your portfolio"]

\* handle_simulation_results 84-112 in portfolio mode: the 'Portfolio Error'
\* title when the weights do not add up, else the aggregated values
PortfolioResult(r, D, dx) ==
    LET breakdown == create_portfolio_breakdown_display(r.portfolio_data, dx, D.X)
        before == total_before_output(r.portfolio_data, D.X)
        delta == total_delta_x(r.portfolio_data, dx)
    IN  IF ~isclose_100(total_weight(r.portfolio_data))
        THEN [title |-> "Portfolio Error"]
        ELSE [title |-> "results",
              portfolio_before |-> before,
              portfolio_after |-> RAdd(before, delta),
              percentage_change |-> RelativeChange(delta, before),
              breakdown |-> breakdown,
              attribution_dict |-> attribute_portfolio_change(r.model_method,
                    dx, r.shock_maps, r.portfolio_data, D.L, D.G, D.A)]

\* position_mode == 'portfolio' and portfolio_data
IsPortfolio(r) == r.position_mode = "portfolio" /\ r.portfolio_data # << >>

\* ------------------------------------------------------- shock expansion
NoRequest == "None"
None == "None"

\* config.REGION_GROUPS
REGION_GROUPS ==
    [group_name \in {"EU27", "OECD", "Africa", "Americas", "Asia-Pacific",
                     "Europe (Non-EU27)", "Middle East"} |->
        CASE group_name = "EU27" ->
                <<"AT", "BE", "BG", "CY", "CZ", "DE", "DK", "EE", "ES", "FI",
                  "FR", "GR", "HR", "HU", "IE", "IT", "LT", "LU", "LV", "MT",
                  "NL", "PL", "PT", "RO", "SE", "SI", "SK">>
          [] group_name = "OECD" ->
                <<"AU", "AT", "BE", "CA", "CH", "CZ", "DE", "DK", "EE", "ES",
                  "FI", "FR", "GR", "HU", "IE", "IT", "JP", "KR", "LT", "LU",
                  "LV", "MX", "NL", "NO", "PL", "PT", "SE", "SI", "SK", "TR",
                  "GB", "US">>
          [] group_name = "Africa" -> <<"ZA", "WF">>
          [] group_name = "Americas" -> <<"US", "CA", "BR", "MX", "WL">>
          [] group_name = "Asia-Pacific" ->
                <<"JP", "CN", "KR", "IN", "AU", "TW", "ID", "WA">>
          [] group_name = "Europe (Non-EU27)" -> <<"GB", "CH", "NO", "RU", "WE">>
          [] OTHER -> <<"WM">>]

\* every group with its whole member list, whatever the period holds
get_region_groups_unfiltered(all_countries) == REGION_GROUPS

\* get_valid_region_groups: the members a period holds, groups without any
\* such member left out
get_valid_region_groups(all_countries) ==
    LET valid_members(group_name) ==
            SelectSeq(REGION_GROUPS[group_name],
                      LAMBDA country : country \in Range(all_countries))
    IN  [group_name \in {g \in DOMAIN REGION_GROUPS : valid_members(g) # << >>} |->
            valid_members(group_name)]

\* Periods whose regions carry EXIOBASE codes (a few of the 49): 1995 holds
\* one member of Africa, 1996 both.
ExiobasePeriods == {1995, 1996}

\* load_labels_data(year): the countries and sectors of labels.json
load_labels_data(year) ==
    CASE year = 1995 ->
            [countries |-> <<"NO", "ZA", "WM">>, sectors |-> <<"Farming", "Mining">>]
      [] year = 1996 ->
            [countries |-> <<"NO", "ZA", "WF">>, sectors |-> <<"Farming", "Mining">>]
      [] OTHER ->
            [countries |-> <<"C1", "C2">>,
             sectors |-> <<"Farming", "Food Processing", "Mining", "Manufacturing">>]

\* countries_to_shock (callbacks 46-52, app 866-872)
countries_to_shock(shock_region, ALL_COUNTRIES) ==
    LET valid_region_groups == get_valid_region_groups(ALL_COUNTRIES)
    IN  IF shock_region = "All" THEN ALL_COUNTRIES
        ELSE IF shock_region \in DOMAIN valid_region_groups
             THEN valid_region_groups[shock_region]
             ELSE <<shock_region>>

\* encore_materiality.json: the sectors that depend on each ecosystem service
EncoreData ==
    <<[service |-> "Pollination", sectors |-> <<"Farming", "Food Processing">>],
      [service |-> "Water supply", sectors |-> <<"Mining">>]>>

\* next((item for item in encore_data if item["service"] == ecosystem_service), None)
\* as the index of the item, 0 for None
service_data(encore_data, ecosystem_service) ==
    IF \E k \in 1..Len(encore_data) : encore_data[k].service = ecosystem_service
    THEN CHOOSE k \in 1..Len(encore_data) :
            /\ encore_data[k].service = ecosystem_service
            /\ \A j \in 1..(k - 1) : encore_data[j].service # ecosystem_service
    ELSE 0

\* current_builder_shocks: for country in countries_to_shock, for sector in
\* dependent_sectors, with the slider's percentage
current_builder_shocks(countries, dependent_sectors, magnitude) ==
    LET m == Len(dependent_sectors)
    IN  [k \in 1..(Len(countries) * m) |->
            [region |-> countries[((k - 1) \div m) + 1],
             sector |-> dependent_sectors[((k - 1) % m) + 1],
             magnitude |-> magnitude]]

\* run_and_update_all_results 853-885: what the handler is called with
shock_arguments(c, builder_shocks, encore_data) ==
    LET shock_mode == IF builder_shocks # << >> THEN "builder" ELSE "single"
        item == service_data(encore_data, c.ecosystem_service)
    IN  IF /\ shock_mode = "single"
           /\ c.shock_type = "ecosystem"
           /\ encore_data # << >>
           /\ c.ecosystem_service # None
           /\ item # 0
        THEN [shock_mode |-> "builder",
              builder_shocks |->
                    current_builder_shocks(
                        countries_to_shock(c.shock_region,
                                           load_labels_data(c.year).countries),
                        encore_data[item].sectors, c.magnitude),
              shock_region |-> None, shock_sector |-> None]
        ELSE [shock_mode |-> shock_mode, builder_shocks |-> builder_shocks,
              shock_region |-> c.shock_region, shock_sector |-> c.shock_sector]

\* magnitude / 100.0
magnitude_prop(magnitude) == RDiv(magnitude, Rat(100, 1))

\* handle_simulation_results 30-55: shock_maps
expanded_shock_maps(a, magnitude, year) ==
    IF a.shock_mode = "builder"
    THEN [k \in 1..Len(a.builder_shocks) |->
            [region |-> a.builder_shocks[k].region,
             sector |-> a.builder_shocks[k].sector,
             magnitude |-> magnitude_prop(a.builder_shocks[k].magnitude)]]
    ELSE LET countries == countries_to_shock(a.shock_region,
                                             load_labels_data(year).countries)
         IN  [k \in 1..Len(countries) |->
                [region |-> countries[k], sector |-> a.shock_sector,
                 magnitude |-> magnitude_prop(magnitude)]]

\* ------------------------------------------------------- requests
Threads == 1..NumThreads

\* shock magnitudes as output-reduction fractions: 0%, 50% and 100%
Magnitudes == {Zero, Rat(1, 2), One}

ElementaryShocks ==
    {[region |-> Labels[p][1], sector |-> Labels[p][2], magnitude |-> m] :
        p \in 1..N, m \in Magnitudes}

\* all sequences over S of length 1..n
RECURSIVE SeqsUpTo(_, _)
SeqsUpTo(S, n) ==
    IF n = 0 THEN {}
    ELSE LET shorter == SeqsUpTo(S, n - 1)
         IN  {<<e>> : e \in S} \cup shorter
                \cup {Append(q, e) : q \in {r \in shorter : Len(r) = n - 1}, e \in S}

ShockSets == SeqsUpTo(ElementaryShocks, MaxShocks)

\* A run request as the dashboard submits it: every matrix of the period is
\* handed to the attribution.
Request(year, model_method, shock_maps, home) ==
    [year |-> year, model_method |-> model_method, shock_maps |-> shock_maps,
     home |-> home, with_L |-> TRUE, with_G |-> TRUE, with_A |-> TRUE,
     position_mode |-> "single", portfolio_data |-> << >>]

SolveRequests ==
    {Request(y, m, s, Labels[h]) :
        y \in Periods, m \in {"leontief", "ghosh"}, s \in ShockSets, h \in 1..N}

\* The requests of the concurrent runs: the 50% shock on C1-Farming of the
\* test fixture, seen from C1-Food Processing, under the Leontief closure on
\* 2021 and under the Ghosh closure on 2020.
FixtureShock == <<[region |-> "C1", sector |-> "Farming", magnitude |-> Rat(1, 2)]>>

AppRequests ==
    {Request(2021, "leontief", FixtureShock, <<"C1", "Food Processing">>),
     [Request(2020, "ghosh", FixtureShock, <<"C1", "Food Processing">>)
        EXCEPT !.position_mode = "portfolio",
               !.portfolio_data =
                    <<[region |-> "C1", sector |-> "Farming", weight |-> Rat(50, 1)],
                      [region |-> "C2", sector |-> "Mining", weight |-> Rat(50, 1)]>>]}

\* Direct calls of the solver and of attribute_output_change, as the tests
\* make them: any method name, any of L_df, G_df, A_df left at its default
\* None; the shocks are 50% shocks.
AttributionShockSets ==
    SeqsUpTo({e \in ElementaryShocks : e.magnitude = Rat(1, 2)}, MaxShocks)

AttributionRequests ==
    {[year |-> y, model_method |-> m, shock_maps |-> s, home |-> Labels[h],
      with_L |-> wl, with_G |-> wg, with_A |-> wa,
      position_mode |-> "single", portfolio_data |-> << >>] :
        y \in Periods, m \in {"leontief", "ghosh", "lenzen"},
        s \in AttributionShockSets, h \in 1..N,
        wl \in BOOLEAN, wg \in BOOLEAN, wa \in BOOLEAN}

\* Portfolio-mode requests: the holdings are any list of up to MaxHoldings
\* holdings, uploaded lists included, so the weights need not be multiples
\* of the 0.1 step of the weight input.
PortfolioWeights == {Rat(50, 1), Rat(60, 1), Rat(9999, 200), Rat(100001, 2000)}

Holdings ==
    {[region |-> Labels[p][1], sector |-> Labels[p][2], weight |-> w] :
        p \in 1..3, w \in PortfolioWeights}

Portfolios == SeqsUpTo(Holdings, MaxHoldings) \cup {<< >>}

PortfolioShocks ==
    {FixtureShock,
     <<[region |-> "C2", sector |-> "Mining", magnitude |-> One]>>}

PortfolioRequests ==
    {[year |-> c[1], model_method |-> c[2], shock_maps |-> s,
      home |-> <<"C1", "Food Processing">>,
      with_L |-> TRUE, with_G |-> TRUE, with_A |-> TRUE,
      position_mode |-> "portfolio", portfolio_data |-> h] :
        c \in {<<2021, "leontief">>, <<2021, "ghosh">>, <<IdlePeriod, "leontief">>},
        s \in PortfolioShocks, h \in Portfolios}

\* What the user picks in the scenario builder before clicking Add: a
\* region, a sector and the slider's percentage; "" is an empty dropdown.
\* NO (Norway) is a country code of config.py and no region of the fixture.
BuilderInputs ==
    {[region |-> "C1", sector |-> "Farming", magnitude |-> Rat(50, 1)],
     [region |-> "C1", sector |-> "Farming", magnitude |-> Rat(20, 1)],
     [region |-> "C2", sector |-> "Mining", magnitude |-> Rat(50, 1)],
     [region |-> "NO", sector |-> "Farming", magnitude |-> Rat(50, 1)],
     [region |-> "", sector |-> "Farming", magnitude |-> Rat(50, 1)],
     [region |-> "C1", sector |-> "", magnitude |-> Rat(50, 1)],
     [region |-> "C1", sector |-> "Farming", magnitude |-> NoMagnitude]}

\* The controls as the layout sets them and update_dropdowns fills them
\* (app 137, 171, 183, 503-511).
Controls(year, shock_region, shock_sector, magnitude, shock_type, ecosystem_service, model_method) ==
    [year |-> year, shock_region |-> shock_region, shock_sector |-> shock_sector,
     magnitude |-> magnitude, shock_type |-> shock_type,
     ecosystem_service |-> ecosystem_service, model_method |-> model_method,
     home |-> <<"C1", "Food Processing">>]

DefaultControls ==
    Controls(2021, "All", "Food Processing", Rat(10, 1), "ecosystem",
             "Pollination", "leontief")

\* the options of 'shock-region-dropdown' for a period (update_dropdowns
\* 456-470) and the cleared dropdown
ShockRegionOptions(year) ==
    LET COUNTRIES == load_labels_data(year).countries
    IN  {"All"} \cup DOMAIN get_valid_region_groups(COUNTRIES)
            \cup Range(COUNTRIES) \cup {None}

\* positions of 'shock-magnitude-input': 0..100 in steps of 1
SliderPositions == {Rat(0, 1), Rat(10, 1), Rat(50, 1), Rat(100, 1)}

\* what a user can have set when Run is clicked with an empty scenario store
SingleShockControls ==
    UNION {{Controls(year, r, s, p, ty, e, "leontief") :
                r \in ShockRegionOptions(year),
                s \in Range(load_labels_data(year).sectors),
                p \in SliderPositions,
                ty \in {"sector", "ecosystem"},
                e \in {EncoreData[k].service : k \in 1..Len(EncoreData)} \cup {None}} :
            year \in ExiobasePeriods \cup {2021}}

\* the controls while a custom scenario is built on 2021
BuilderControls ==
    {Controls(2021, "C1", "Farming", Rat(10, 1), ty, "Pollination", m) :
        ty \in {"sector", "ecosystem"}, m \in {"leontief", "ghosh"}}


\* the upload of a file: the browser hands its text over as a data URL
DataUrl(doc) ==
    [kind |-> "contents", content_type |-> "data:application/x-yaml;base64",
     file |-> doc]

ShockEntry(region, sector, magnitude) ==
    <<[key |-> "region", node |-> StrNode("plain", region)],
      [key |-> "sector", node |-> StrNode("plain", sector)],
      [key |-> "magnitude", node |-> NumNode(magnitude)]>>

\* hand-written files: a mapping instead of a list
NotAListFile == [kind |-> "mapping", items |-> << >>]

\* two shocks on the same sector
DuplicateKeyFile ==
    [kind |-> "sequence",
     items |-> <<ShockEntry("C1", "Farming", Rat(30, 1)),
                 ShockEntry("C1", "Farming", Rat(70, 1))>>]

\* a magnitude of 150 percent
OutOfRangeFile ==
    [kind |-> "sequence", items |-> <<ShockEntry("C1", "Farming", Rat(150, 1))>>]

\* a region that the fixture periods do not hold
UnknownRegionFile ==
    [kind |-> "sequence", items |-> <<ShockEntry("NO", "Farming", Rat(50, 1))>>]


\* ------------------------------------------------------- portfolio builder
\* the value None of 'portfolio-weight-input'
NoWeight == << >>

\* disable_add_to_portfolio_button
disable_add_to_portfolio_button(new_weight, portfolio_data, region, sector) ==
    IF new_weight = NoWeight THEN TRUE
    ELSE IF new_weight[1] <= 0 THEN TRUE
    ELSE LET current_total_weight == total_weight(portfolio_data)
             hits == {k \in 1..Len(portfolio_data) :
                        /\ portfolio_data[k].region = region
                        /\ portfolio_data[k].sector = sector}
             existing_item_weight ==
                IF hits = {} THEN Zero
                ELSE portfolio_data[CHOOSE k \in hits : \A j \in hits : k <= j].weight
             potential_total ==
                RAdd(RSub(current_total_weight, existing_item_weight), new_weight)
         IN  RLess(Rat(100, 1), potential_total)

\* update_portfolio_store 627-637: the add branch
AddOrUpdateHolding(current_portfolio, region, sector, weight) ==
    LET hits == {k \in 1..Len(current_portfolio) :
                    /\ current_portfolio[k].region = region
                    /\ current_portfolio[k].sector = sector}
    IN  IF hits = {}
        THEN Append(current_portfolio,
                [region |-> region, sector |-> sector, weight |-> weight])
        ELSE LET first == CHOOSE k \in hits : \A j \in hits : k <= j
             IN  [current_portfolio EXCEPT ![first].weight = weight]

\* update_portfolio_store 619-647; an upload is given as the document
\* yaml.safe_load returns for it
update_portfolio_store(trigger, uploaded_portfolio, region, sector, weight, current_portfolio) ==
    IF trigger.id = "delete-portfolio-item-button"
    THEN IF 0 <= trigger.index /\ trigger.index < Len(current_portfolio)
         THEN Pop(current_portfolio, trigger.index)
         ELSE current_portfolio
    ELSE IF /\ trigger.id = "add-portfolio-item-button"
            /\ region # None /\ sector # None /\ weight # NoWeight
    THEN AddOrUpdateHolding(current_portfolio, region, sector, weight)
    ELSE IF trigger.id = "upload-portfolio" /\ uploaded_portfolio # NoFile
    THEN IF uploaded_portfolio.kind = "sequence"
         THEN uploaded_portfolio.items
         ELSE current_portfolio
    ELSE current_portfolio

\* the page after its first callbacks: nothing held, nothing selected, the
\* weight input at 10 (app 110)
InitialPortfolioUi ==
    [data |-> << >>, region |-> None, sector |-> None, weight |-> Rat(10, 1),
     disabled |-> disable_add_to_portfolio_button(Rat(10, 1), << >>, None, None)]

\* values typed into 'portfolio-weight-input'
TypedWeights == {Rat(40, 1), Rat(60, 1), Rat(100, 1)}

\* the options of the two holding dropdowns
HoldingOptions == {<<"C1", "Farming">>, <<"C2", "Mining">>}

\* an imported portfolio file
UploadedPortfolio ==
    [kind |-> "sequence",
     items |-> <<[region |-> "C1", sector |-> "Farming", weight |-> Rat(60, 1)]>>]

\* ------------------------------------------------------- data directory
\* a period of the year dropdown for which nothing was ingested
MissingPeriod == 2018

StoredPeriods == Periods \cup ExiobasePeriods \cup {IdlePeriod}

\* the files get_cached_matrices asks load_mrio_matrices for
MatrixFiles == {"A", "X", "Y", "L", "G"}

\* what _generate_dummy_data writes into the directory of a period
DummyFiles == {"labels", "A", "Y", "E", "L", "X"}

\* the data directory after ingestion of the stored periods
IngestedDisk ==
    [y \in StoredPeriods \cup {MissingPeriod} |->
        IF y \in StoredPeriods THEN MatrixFiles \cup {"labels", "E"} ELSE {}]

\* load_labels_data 105-110: a missing labels.json makes the loader write
\* dummy data for the period
disk_after_load_labels_data(files, year) ==
    IF "labels" \in files[year] THEN files
    ELSE [files EXCEPT ![year] = DummyFiles]

VARIABLES
    cache,        \* the dict of lru_cache around get_cached_matrices: year -> dataset
    loads,        \* year -> number of executions of load_mrio_matrices
    pc,           \* thread -> position of its request
    req,          \* thread -> the request it serves
    xm,           \* thread -> x_m_new
    inverse,      \* thread -> endogenous_leontief_inv / G_mm_inv
    delta_x,      \* thread -> delta_x
    delta_y,      \* thread -> delta_y_req
    causes,       \* thread -> impact_causes
    attribution,  \* thread -> the dict attribute_output_change returned
    response,     \* thread -> what handle_simulation_results returns in portfolio mode
    scenario_store, \* dcc.Store 'scenario-store': the list of builder shocks
    download,     \* dcc.Download 'download-yaml': the exported text
    upload_contents, \* dcc.Upload 'upload-yaml': the contents property
    controls,     \* the values of the period, shock and home controls
    disk,         \* period -> the files of its directory under EXIOBASE_DIR
    portfolio_ui  \* 'portfolio-store', the holding controls and the Add button

vars == <<cache, loads, pc, req, xm, inverse, delta_x, delta_y, causes, attribution,
          response, scenario_store, download, upload_contents, controls, disk, portfolio_ui>>
ui == <<response, scenario_store, download, upload_contents, controls, disk, portfolio_ui>>
stores == <<scenario_store, download, upload_contents, controls, disk, portfolio_ui>>
locals == <<xm, inverse, delta_x, delta_y, causes, attribution>>

Cleared == [t \in Threads |-> None]

\* ------------------------------------------------------- cached frames
\* x_m_new as a view of the cached column: the reductions land in the cache
GrossOutputScaledInPlace(X, shock_maps, x_m) ==
    LET exo == exogenous_labels(shock_maps)
    IN  Vector([p \in 1..N |->
            IF \E k \in 1..Len(exo) : exo[k] = p
            THEN x_m[CHOOSE k \in 1..Len(exo) : exo[k] = p]
            ELSE X[p]])

\* x_m_new is a .copy() of the shocked rows: scaling it in place leaves the
\* cached GrossOutput column as it was.
GrossOutputAfterReduction(X, shock_maps, x_m) == X

\* I - A formed in place in the array behind the cached frame
CoefficientsNegatedInPlace(A) == IdentityMinus(A)

\* I_minus_A = -A_df.to_numpy() is a fresh array: adding 1 to its diagonal
\* leaves the cached A as it was.
CoefficientsAfterDeltaY(A) == A

\* ------------------------------------------------------- actions
\* run_and_update_all_results is entered with n_clicks > 0
Submit(t, r) ==
    /\ pc[t] = "idle"
    /\ req' = [req EXCEPT ![t] = r]
    /\ pc' = [pc EXCEPT ![t] = "lookup"]
    /\ UNCHANGED <<cache, loads, locals>>
    /\ UNCHANGED ui

\* get_cached_matrices(year): the key is in the cache
CacheHit(t) ==
    /\ pc[t] = "lookup"
    /\ req[t].year \in DOMAIN cache
    /\ pc' = [pc EXCEPT ![t] = "partition"]
    /\ UNCHANGED <<cache, loads, req, locals>>
    /\ UNCHANGED ui

\* get_cached_matrices(year): the key is missing, the wrapped function starts
CacheMiss(t) ==
    /\ pc[t] = "lookup"
    /\ req[t].year \notin DOMAIN cache
    /\ loads' = [loads EXCEPT ![req[t].year] = @ + 1]
    /\ pc' = [pc EXCEPT ![t] = "loading"]
    /\ UNCHANGED <<cache, req, locals>>
    /\ UNCHANGED ui

\* load_mrio_matrices returns and lru_cache stores the result under the key
FinishLoad(t) ==
    /\ pc[t] = "loading"
    /\ MatrixFiles \subseteq disk[req[t].year]
    /\ cache' = [y \in DOMAIN cache \cup {req[t].year} |->
                    IF y = req[t].year THEN load_mrio_matrices(y) ELSE cache[y]]
    /\ pc' = [pc EXCEPT ![t] = "partition"]
    /\ UNCHANGED <<loads, req, locals>>
    /\ UNCHANGED ui

UsesGhosh(r) == r.model_method = "ghosh"

\* partitioning and x_m_new (run_physical_risk 15-27, run_physical_risk_ghosh 87-99)
Partition(t) ==
    /\ pc[t] = "partition"
    /\ LET D == cache[req[t].year]
           sm == req[t].shock_maps
       IN  IF 0 \in Range(exogenous_labels(sm))
           THEN /\ pc' = [pc EXCEPT ![t] = "raised"]
                /\ attribution' = [attribution EXCEPT ![t] = "KeyError"]
                /\ UNCHANGED <<cache, xm>>
           ELSE /\ xm' = [xm EXCEPT ![t] = x_m_new(D.X, sm)]
                /\ cache' = [cache EXCEPT ![req[t].year].X =
                                GrossOutputAfterReduction(D.X, sm, x_m_new(D.X, sm))]
                /\ pc' = [pc EXCEPT ![t] = "reduce"]
                /\ UNCHANGED attribution
    /\ UNCHANGED <<loads, req, inverse, delta_x, delta_y, causes>>
    /\ UNCHANGED ui

\* the inverse of the exogenous block and the reduced inverse
\* (run_physical_risk 29-48, run_physical_risk_ghosh 101-107)
Reduce(t) ==
    /\ pc[t] = "reduce"
    /\ LET D == cache[req[t].year]
           sm == req[t].shock_maps
           inv == IF UsesGhosh(req[t]) THEN G_mm_inv(D.G, sm)
                  ELSE endogenous_leontief_inv(D.L, sm)
       IN  IF inv = "LinAlgError"
           THEN /\ pc' = [pc EXCEPT ![t] = "raised"]
                /\ attribution' = [attribution EXCEPT ![t] = "LinAlgError"]
                /\ UNCHANGED inverse
           ELSE /\ inverse' = [inverse EXCEPT ![t] = inv]
                /\ pc' = [pc EXCEPT ![t] = "propagate"]
                /\ UNCHANGED attribution
    /\ UNCHANGED <<cache, loads, req, xm, delta_x, delta_y, causes>>
    /\ UNCHANGED ui

\* new endogenous output and delta_x
\* (run_physical_risk 50-71, run_physical_risk_ghosh 109-125)
Propagate(t) ==
    /\ pc[t] = "propagate"
    /\ LET D == cache[req[t].year]
           sm == req[t].shock_maps
       IN  IF UsesGhosh(req[t])
           THEN /\ delta_x' = [delta_x EXCEPT ![t] =
                                GhoshDelta(D.X, D.G, inverse[t], xm[t], sm)]
                /\ pc' = [pc EXCEPT ![t] = "solved"]
           ELSE /\ delta_x' = [delta_x EXCEPT ![t] =
                                LeontiefDelta(D.A, D.X, D.Y, inverse[t], xm[t], sm)]
                /\ pc' = [pc EXCEPT ![t] = "delta_y"]
    /\ UNCHANGED <<cache, loads, req, xm, inverse, delta_y, causes, attribution>>
    /\ UNCHANGED ui

\* delta_y_req = (I - A) @ delta_x (run_physical_risk 73-80)
DeltaY(t) ==
    /\ pc[t] = "delta_y"
    /\ LET D == cache[req[t].year]
       IN  /\ delta_y' = [delta_y EXCEPT ![t] = delta_y_req(D.A, delta_x[t])]
           /\ cache' = [cache EXCEPT ![req[t].year].A = CoefficientsAfterDeltaY(D.A)]
    /\ pc' = [pc EXCEPT ![t] = "solved"]
    /\ UNCHANGED <<loads, req, xm, inverse, delta_x, causes, attribution>>
    /\ UNCHANGED ui

Supplied(flag, frame) == IF flag THEN frame ELSE None

\* attribute_output_change up to impact_causes (163-197): the sentinel is
\* returned at once
AttributeCauses(t) ==
    /\ pc[t] = "solved"
    /\ ~IsPortfolio(req[t])
    /\ LET D == cache[req[t].year]
           r == req[t]
           home == LabelPos(r.home)
       IN  IF BelowTolerance(RAbs(delta_x[t][home]))
           THEN /\ attribution' = [attribution EXCEPT ![t] =
                        attribute_output_change(r.model_method, delta_x[t],
                            r.shock_maps, r.home, Supplied(r.with_L, D.L),
                            Supplied(r.with_G, D.G), Supplied(r.with_A, D.A))]
                /\ pc' = [pc EXCEPT ![t] = "attributed"]
                /\ UNCHANGED causes
           ELSE /\ causes' = [causes EXCEPT ![t] =
                        impact_causes(r.model_method, delta_x[t], r.shock_maps,
                            home, Supplied(r.with_L, D.L),
                            Supplied(r.with_G, D.G), Supplied(r.with_A, D.A))]
                /\ pc' = [pc EXCEPT ![t] = "normalize"]
                /\ UNCHANGED attribution
    /\ UNCHANGED <<cache, loads, req, xm, inverse, delta_x, delta_y>>
    /\ UNCHANGED ui

\* attribute_output_change from the exclusion of the home sector to the
\* return (199-212)
Normalize(t) ==
    /\ pc[t] = "normalize"
    /\ LET D == cache[req[t].year]
           r == req[t]
       IN  attribution' = [attribution EXCEPT ![t] =
                attribute_output_change(r.model_method, delta_x[t],
                    r.shock_maps, r.home, Supplied(r.with_L, D.L),
                    Supplied(r.with_G, D.G), Supplied(r.with_A, D.A))]
    /\ pc' = [pc EXCEPT ![t] = "attributed"]
    /\ UNCHANGED <<cache, loads, req, xm, inverse, delta_x, delta_y, causes>>
    /\ UNCHANGED ui

\* handle_simulation_results 84-112: the portfolio branch
PortfolioResults(t) ==
    /\ pc[t] = "solved"
    /\ IsPortfolio(req[t])
    /\ response' = [response EXCEPT ![t] =
            PortfolioResult(req[t], cache[req[t].year], delta_x[t])]
    /\ pc' = [pc EXCEPT ![t] = "attributed"]
    /\ UNCHANGED <<cache, loads, req, xm, inverse, delta_x, delta_y, causes,
                   attribution, stores>>

\* ---- update_scenario_store, one action per trigger; the dropdowns and the
\* slider keep some value of BuilderInputs whatever the trigger
StoreUpdate(trigger, contents) ==
    \E in \in BuilderInputs :
        /\ scenario_store' = update_scenario_store(trigger, contents, in.region,
                                in.sector, in.magnitude, scenario_store)
        /\ Len(scenario_store') <= MaxStore

ClearScenario ==
    /\ StoreUpdate([id |-> "clear-scenario-button", index |-> 0], upload_contents)
    /\ UNCHANGED <<cache, loads, pc, req, locals, response, download, upload_contents,
                   controls, disk, portfolio_ui>>

\* the delete button of the i-th displayed shock (index i - 1)
DeleteShock(i) ==
    /\ i \in 1..Len(scenario_store)
    /\ StoreUpdate([id |-> "delete-shock-button", index |-> i - 1], upload_contents)
    /\ UNCHANGED <<cache, loads, pc, req, locals, response, download, upload_contents,
                   controls, disk, portfolio_ui>>

\* a delete button of a list that has since shrunk: its index is past the end
DeleteStale(i) ==
    /\ i > Len(scenario_store)
    /\ StoreUpdate([id |-> "delete-shock-button", index |-> i - 1], upload_contents)
    /\ UNCHANGED <<cache, loads, pc, req, locals, response, download, upload_contents,
                   controls, disk, portfolio_ui>>

AddShock(in) ==
    /\ scenario_store' = update_scenario_store(
            [id |-> "builder-add-shock-button", index |-> 0], upload_contents,
            in.region, in.sector, in.magnitude, scenario_store)
    /\ Len(scenario_store') <= MaxStore
    /\ UNCHANGED <<cache, loads, pc, req, locals, response, download, upload_contents,
                   controls, disk, portfolio_ui>>

\* a file is dropped on 'upload-yaml': its contents change and trigger the
\* callback
UploadYaml(doc) ==
    /\ upload_contents # DataUrl(doc)
    /\ upload_contents' = DataUrl(doc)
    /\ StoreUpdate([id |-> "upload-yaml", index |-> 0], DataUrl(doc))
    /\ UNCHANGED <<cache, loads, pc, req, locals, response, download, controls, disk, portfolio_ui>>

\* the file the browser saved from the last download is uploaded
UploadDownload ==
    /\ download # NoFile
    /\ UploadYaml(download.content)

\* export_scenario: dash.no_update for an empty store
ExportScenario ==
    /\ scenario_store # << >>
    /\ download' = export_scenario(scenario_store)
    /\ UNCHANGED <<cache, loads, pc, req, locals, response, scenario_store,
                   upload_contents, controls, disk, portfolio_ui>>

\* ---- the portfolio builder; a change of the store or of the weight input
\* fires disable_add_to_portfolio_button, a change of a dropdown does not
\* (region and sector are State of that callback)
PortfolioUnchanged ==
    UNCHANGED <<cache, loads, pc, req, locals, response, scenario_store, download,
                upload_contents, controls, disk>>

TypeWeight(w) ==
    /\ w # portfolio_ui.weight
    /\ portfolio_ui' = [portfolio_ui EXCEPT
            !.weight = w,
            !.disabled = disable_add_to_portfolio_button(w, portfolio_ui.data,
                            portfolio_ui.region, portfolio_ui.sector)]
    /\ PortfolioUnchanged

\* the weight input is emptied, or holds a number outside 0.1..100: Dash
\* reports None
ClearWeight == TypeWeight(NoWeight)

SelectHolding(label) ==
    /\ <<portfolio_ui.region, portfolio_ui.sector>> # label
    /\ portfolio_ui' = [portfolio_ui EXCEPT !.region = label[1], !.sector = label[2]]
    /\ PortfolioUnchanged

\* update_portfolio_store, then the button callback on the new store
PortfolioStoreUpdate(trigger, uploaded_portfolio) ==
    LET data == update_portfolio_store(trigger, uploaded_portfolio,
                    portfolio_ui.region, portfolio_ui.sector, portfolio_ui.weight,
                    portfolio_ui.data)
    IN  /\ Len(data) <= MaxHoldings
        /\ portfolio_ui' = [portfolio_ui EXCEPT
                !.data = data,
                !.disabled = disable_add_to_portfolio_button(portfolio_ui.weight,
                                data, portfolio_ui.region, portfolio_ui.sector)]
        /\ PortfolioUnchanged

\* a click on the enabled button
AddHolding ==
    /\ ~portfolio_ui.disabled
    /\ PortfolioStoreUpdate([id |-> "add-portfolio-item-button", index |-> 0], NoFile)

DeleteHolding(i) ==
    /\ i \in 1..Len(portfolio_ui.data)
    /\ PortfolioStoreUpdate([id |-> "delete-portfolio-item-button", index |-> i - 1],
                            NoFile)

UploadPortfolio ==
    /\ portfolio_ui.data # UploadedPortfolio.items
    /\ PortfolioStoreUpdate([id |-> "upload-portfolio", index |-> 0], UploadedPortfolio)

\* load_mrio_matrices meets a missing file: FileNotFoundError is caught and
\* exit(1) raises SystemExit, which no handler of the request catches. It
\* ends the serving thread without a response, or the whole process when
\* the host runs requests on its main thread.
FailLoad(t) ==
    /\ pc[t] = "loading"
    /\ ~(MatrixFiles \subseteq disk[req[t].year])
    /\ \/ /\ pc' = [pc EXCEPT ![t] = "exited"]
          /\ UNCHANGED cache
       \/ /\ pc' = [u \in Threads |-> "exited"]
          /\ cache' = << >>
    /\ UNCHANGED <<loads, req, locals>>
    /\ UNCHANGED ui

\* a period is picked in 'year-dropdown': update_dropdowns reads its labels
\* and resets the shock controls to their defaults
SelectYear(year) ==
    /\ \A t \in Threads : pc[t] # "exited"
    /\ disk' = disk_after_load_labels_data(disk, year)
    /\ controls' = [controls EXCEPT !.year = year, !.shock_region = "All",
                        !.ecosystem_service = "Pollination"]
    /\ UNCHANGED <<cache, loads, pc, req, locals, response, scenario_store,
                   download, upload_contents, portfolio_ui>>

\* 'run-button' is clicked: run_and_update_all_results expands the shocks
\* and handle_simulation_results goes on to the solver, or returns its
\* message for an empty builder list
RunClicked(t) ==
    /\ pc[t] = "idle"
    /\ LET a == shock_arguments(controls, scenario_store, EncoreData)
       IN  IF a.shock_mode = "builder" /\ a.builder_shocks = << >>
           THEN /\ response' = [response EXCEPT ![t] =
                        [title |-> "In Scenario Builder mode, please select at least one region and one sector."]]
                /\ UNCHANGED <<pc, req>>
           ELSE /\ req' = [req EXCEPT ![t] =
                        Request(controls.year, controls.model_method,
                                expanded_shock_maps(a, controls.magnitude,
                                                    controls.year),
                                controls.home)]
                /\ pc' = [pc EXCEPT ![t] = "lookup"]
                /\ UNCHANGED response
    /\ UNCHANGED <<cache, loads, locals, stores>>

\* the response is produced (or the exception reaches the server) and the
\* request's objects are discarded
Respond(t) ==
    /\ pc[t] \in {"attributed", "raised"}
    /\ pc' = [pc EXCEPT ![t] = "idle"]
    /\ req' = [req EXCEPT ![t] = NoRequest]
    /\ xm' = [xm EXCEPT ![t] = None]
    /\ inverse' = [inverse EXCEPT ![t] = None]
    /\ delta_x' = [delta_x EXCEPT ![t] = None]
    /\ delta_y' = [delta_y EXCEPT ![t] = None]
    /\ causes' = [causes EXCEPT ![t] = None]
    /\ attribution' = [attribution EXCEPT ![t] = None]
    /\ UNCHANGED <<cache, loads>>
    /\ response' = [response EXCEPT ![t] = None]
    /\ UNCHANGED stores

\* the host abandons a request between two computation steps
Abandon(t) ==
    /\ pc[t] \in {"reduce", "propagate", "delta_y", "solved", "normalize"}
    /\ pc' = [pc EXCEPT ![t] = "idle"]
    /\ req' = [req EXCEPT ![t] = NoRequest]
    /\ xm' = [xm EXCEPT ![t] = None]
    /\ inverse' = [inverse EXCEPT ![t] = None]
    /\ delta_x' = [delta_x EXCEPT ![t] = None]
    /\ delta_y' = [delta_y EXCEPT ![t] = None]
    /\ causes' = [causes EXCEPT ![t] = None]
    /\ attribution' = [attribution EXCEPT ![t] = None]
    /\ UNCHANGED <<cache, loads>>
    /\ response' = [response EXCEPT ![t] = None]
    /\ UNCHANGED stores

\* ------------------------------------------------------- specifications
\* The dashboard process: nothing cached, every thread idle.
Init ==
    /\ cache = << >>
    /\ loads = [y \in Periods |-> 0]
    /\ pc = [t \in Threads |-> "idle"]
    /\ req = [t \in Threads |-> NoRequest]
    /\ xm = Cleared
    /\ inverse = Cleared
    /\ delta_x = Cleared
    /\ delta_y = Cleared
    /\ causes = Cleared
    /\ attribution = Cleared
    /\ response = Cleared
    /\ scenario_store = << >>
    /\ download = NoFile
    /\ upload_contents = NoFile
    /\ controls = DefaultControls
    /\ disk = IngestedDisk
    /\ portfolio_ui = InitialPortfolioUi

Next ==
    \E t \in Threads :
        \/ \E r \in AppRequests : Submit(t, r)
        \/ CacheHit(t)
        \/ CacheMiss(t)
        \/ FinishLoad(t)
        \/ Partition(t)
        \/ Reduce(t)
        \/ Propagate(t)
        \/ DeltaY(t)
        \/ AttributeCauses(t)
        \/ Normalize(t)
        \/ PortfolioResults(t)
        \/ Respond(t)
        \/ Abandon(t)

Spec == Init /\ [][Next]_vars

\* One solve on loaded matrices: the solver and the attribution as functions
\* of the request, for every request of SolveRequests.
InitSolve ==
    /\ cache = [y \in Periods |-> load_mrio_matrices(y)]
    /\ loads = [y \in Periods |-> 1]
    /\ \E r \in SolveRequests :
        /\ req = [t \in Threads |-> IF t = 1 THEN r ELSE NoRequest]
    /\ pc = [t \in Threads |-> IF t = 1 THEN "partition" ELSE "idle"]
    /\ xm = Cleared
    /\ inverse = Cleared
    /\ delta_x = Cleared
    /\ delta_y = Cleared
    /\ causes = Cleared
    /\ attribution = Cleared
    /\ response = Cleared
    /\ scenario_store = << >>
    /\ download = NoFile
    /\ upload_contents = NoFile
    /\ controls = DefaultControls
    /\ disk = IngestedDisk
    /\ portfolio_ui = InitialPortfolioUi

NextSolve ==
    \/ Partition(1)
    \/ Reduce(1)
    \/ Propagate(1)
    \/ DeltaY(1)
    \/ AttributeCauses(1)
    \/ Normalize(1)

SpecSolve == InitSolve /\ [][NextSolve]_vars

\* One direct call of the solver followed by attribute_output_change, for
\* every request of AttributionRequests.
InitAttribution ==
    /\ cache = [y \in Periods |-> load_mrio_matrices(y)]
    /\ loads = [y \in Periods |-> 1]
    /\ \E r \in AttributionRequests :
        /\ req = [t \in Threads |-> IF t = 1 THEN r ELSE NoRequest]
    /\ pc = [t \in Threads |-> IF t = 1 THEN "partition" ELSE "idle"]
    /\ xm = Cleared
    /\ inverse = Cleared
    /\ delta_x = Cleared
    /\ delta_y = Cleared
    /\ causes = Cleared
    /\ attribution = Cleared
    /\ response = Cleared
    /\ scenario_store = << >>
    /\ download = NoFile
    /\ upload_contents = NoFile
    /\ controls = DefaultControls
    /\ disk = IngestedDisk
    /\ portfolio_ui = InitialPortfolioUi

SpecAttribution == InitAttribution /\ [][NextSolve]_vars

\* One run in portfolio mode on loaded matrices, for every request of
\* PortfolioRequests; an empty holdings list takes the single-asset branch.
InitPortfolio ==
    /\ cache = [y \in {IdlePeriod, 2021} |-> load_mrio_matrices(y)]
    /\ loads = [y \in {IdlePeriod, 2021} |-> 1]
    /\ \E r \in PortfolioRequests :
        /\ req = [t \in Threads |-> IF t = 1 THEN r ELSE NoRequest]
    /\ pc = [t \in Threads |-> IF t = 1 THEN "partition" ELSE "idle"]
    /\ xm = Cleared
    /\ inverse = Cleared
    /\ delta_x = Cleared
    /\ delta_y = Cleared
    /\ causes = Cleared
    /\ attribution = Cleared
    /\ response = Cleared
    /\ scenario_store = << >>
    /\ download = NoFile
    /\ upload_contents = NoFile
    /\ controls = DefaultControls
    /\ disk = IngestedDisk
    /\ portfolio_ui = InitialPortfolioUi

NextPortfolio ==
    \/ NextSolve
    \/ PortfolioResults(1)

SpecPortfolio == InitPortfolio /\ [][NextPortfolio]_vars

\* The scenario builder alone: the store under add, delete, clear, export
\* and upload.
InitStore ==
    /\ cache = << >>
    /\ loads = [y \in Periods |-> 0]
    /\ pc = [t \in Threads |-> "idle"]
    /\ req = [t \in Threads |-> NoRequest]
    /\ xm = Cleared
    /\ inverse = Cleared
    /\ delta_x = Cleared
    /\ delta_y = Cleared
    /\ causes = Cleared
    /\ attribution = Cleared
    /\ response = Cleared
    /\ scenario_store = << >>
    /\ download = NoFile
    /\ upload_contents = NoFile
    /\ controls = DefaultControls
    /\ disk = IngestedDisk
    /\ portfolio_ui = InitialPortfolioUi

NextStore ==
    \/ ClearScenario
    \/ \E i \in 1..MaxStore : DeleteShock(i)
    \/ \E i \in 1..MaxStore : DeleteStale(i)
    \/ \E in \in BuilderInputs : AddShock(in)
    \/ UploadYaml(NotAListFile)
    \/ UploadDownload
    \/ ExportScenario

SpecStore == InitStore /\ [][NextStore]_vars

\* A custom scenario is built or imported, then run on loaded matrices.
InitBuilder ==
    /\ cache = [y \in Periods |-> load_mrio_matrices(y)]
    /\ loads = [y \in Periods |-> 1]
    /\ pc = [t \in Threads |-> "idle"]
    /\ req = [t \in Threads |-> NoRequest]
    /\ xm = Cleared
    /\ inverse = Cleared
    /\ delta_x = Cleared
    /\ delta_y = Cleared
    /\ causes = Cleared
    /\ attribution = Cleared
    /\ response = Cleared
    /\ scenario_store = << >>
    /\ download = NoFile
    /\ upload_contents = NoFile
    /\ controls \in BuilderControls
    /\ disk = IngestedDisk
    /\ portfolio_ui = InitialPortfolioUi

EditScenario ==
    \/ ClearScenario
    \/ \E i \in 1..MaxStore : DeleteShock(i)
    \/ \E in \in BuilderInputs : AddShock(in)
    \/ UploadYaml(NotAListFile)
    \/ UploadYaml(DuplicateKeyFile)
    \/ UploadYaml(OutOfRangeFile)
    \/ UploadYaml(UnknownRegionFile)

NextBuilder ==
    \/ pc[1] = "idle" /\ EditScenario
    \/ RunClicked(1)
    \/ CacheHit(1)
    \/ NextSolve

SpecBuilder == InitBuilder /\ [][NextBuilder]_vars

\* Run is clicked on the single-shock controls, for every setting of
\* SingleShockControls.
InitExpand ==
    /\ cache = << >>
    /\ loads = [y \in Periods |-> 0]
    /\ pc = [t \in Threads |-> "idle"]
    /\ req = [t \in Threads |-> NoRequest]
    /\ xm = Cleared
    /\ inverse = Cleared
    /\ delta_x = Cleared
    /\ delta_y = Cleared
    /\ causes = Cleared
    /\ attribution = Cleared
    /\ response = Cleared
    /\ scenario_store = << >>
    /\ download = NoFile
    /\ upload_contents = NoFile
    /\ controls \in SingleShockControls
    /\ disk = IngestedDisk
    /\ portfolio_ui = InitialPortfolioUi

NextExpand == RunClicked(1)

SpecExpand == InitExpand /\ [][NextExpand]_vars

\* Periods are picked and run with nothing cached; one of them has no
\* dataset on disk.
InitLoad ==
    /\ cache = << >>
    /\ loads = [y \in Periods \cup {MissingPeriod} |-> 0]
    /\ pc = [t \in Threads |-> "idle"]
    /\ req = [t \in Threads |-> NoRequest]
    /\ xm = Cleared
    /\ inverse = Cleared
    /\ delta_x = Cleared
    /\ delta_y = Cleared
    /\ causes = Cleared
    /\ attribution = Cleared
    /\ response = Cleared
    /\ scenario_store = << >>
    /\ download = NoFile
    /\ upload_contents = NoFile
    /\ controls = DefaultControls
    /\ disk = IngestedDisk
    /\ portfolio_ui = InitialPortfolioUi

NextLoad ==
    \/ \E year \in Periods \cup {MissingPeriod} : SelectYear(year)
    \/ \E t \in Threads :
        \/ RunClicked(t)
        \/ CacheHit(t)
        \/ CacheMiss(t)
        \/ FinishLoad(t)
        \/ FailLoad(t)

SpecLoad == InitLoad /\ [][NextLoad]_vars

\* The portfolio builder alone.
InitHoldings ==
    /\ cache = << >>
    /\ loads = [y \in Periods |-> 0]
    /\ pc = [t \in Threads |-> "idle"]
    /\ req = [t \in Threads |-> NoRequest]
    /\ xm = Cleared
    /\ inverse = Cleared
    /\ delta_x = Cleared
    /\ delta_y = Cleared
    /\ causes = Cleared
    /\ attribution = Cleared
    /\ response = Cleared
    /\ scenario_store = << >>
    /\ download = NoFile
    /\ upload_contents = NoFile
    /\ controls = DefaultControls
    /\ disk = IngestedDisk
    /\ portfolio_ui = InitialPortfolioUi

NextHoldings ==
    \/ \E w \in TypedWeights : TypeWeight(w)
    \/ ClearWeight
    \/ \E label \in HoldingOptions : SelectHolding(label)
    \/ AddHolding
    \/ \E i \in 1..MaxHoldings : DeleteHolding(i)
    \/ UploadPortfolio

SpecHoldings == InitHoldings /\ [][NextHoldings]_vars

\* ------------------------------------------------------- properties
\* the thread holds the delta_x its solver call computed
HasResult(t) == pc[t] \in {"delta_y", "solved", "normalize", "attributed"}

\* the baseline gross output the request of thread t was solved on
x_old(t) == load_mrio_matrices(req[t].year).X

ShockPos(t, k) == LabelPos(ShockLabel(req[t].shock_maps[k]))

\* C1: under either closure, a sector shocked with magnitude 1.0 ends with
\* delta_x = -x_old, that is with a new output of exactly 0.
C1_FullShockZeroesOutput ==
    \A t \in Threads :
        HasResult(t) =>
            \A k \in 1..Len(req[t].shock_maps) :
                req[t].shock_maps[k].magnitude = One =>
                    /\ delta_x[t][ShockPos(t, k)] = RNeg(x_old(t)[ShockPos(t, k)])
                    /\ RAdd(x_old(t)[ShockPos(t, k)], delta_x[t][ShockPos(t, k)]) = Zero

\* a Ghosh solve of two shocks, one of them of 100%, has returned
C1_Witness ==
    /\ pc[1] = "solved"
    /\ UsesGhosh(req[1])
    /\ Len(req[1].shock_maps) = 2
    /\ req[1].shock_maps[2].magnitude = One
    /\ req[1].shock_maps[1].magnitude = Rat(1, 2)
    /\ delta_x[1][ShockPos(1, 2)] = RNeg(x_old(1)[ShockPos(1, 2)])
    /\ RLess(Zero, x_old(1)[ShockPos(1, 2)])

\* C2: under either closure, delta_x at every shocked sector is
\* -magnitude * x_old of that sector, hence never positive, whatever other
\* shocks the set holds.
C2_DirectShockApplied ==
    \A t \in Threads :
        HasResult(t) =>
            \A k \in 1..Len(req[t].shock_maps) :
                /\ delta_x[t][ShockPos(t, k)] =
                        RNeg(RMul(req[t].shock_maps[k].magnitude,
                                  x_old(t)[ShockPos(t, k)]))
                /\ ~RLess(Zero, delta_x[t][ShockPos(t, k)])

\* a Leontief solve of two shocks of different magnitudes has returned
C2_Witness ==
    /\ pc[1] = "solved"
    /\ ~UsesGhosh(req[1])
    /\ Len(req[1].shock_maps) = 2
    /\ req[1].shock_maps[1].magnitude = Rat(1, 2)
    /\ req[1].shock_maps[2].magnitude = One
    /\ delta_x[1][ShockPos(1, 1)] =
            RNeg(RMul(Rat(1, 2), x_old(1)[ShockPos(1, 1)]))
    /\ RLess(delta_x[1][ShockPos(1, 1)], Zero)

\* C3: after a single shock of magnitude > 0 on a sector s with positive
\* output, every other sector that takes direct input from s (A[s,j] > 0)
\* has delta_x[j] < 0, under either closure.
C3_NegativePropagation ==
    \A t \in Threads :
        (/\ HasResult(t)
         /\ Len(req[t].shock_maps) = 1
         /\ RLess(Zero, req[t].shock_maps[1].magnitude)
         /\ RLess(Zero, x_old(t)[ShockPos(t, 1)])) =>
            \A j \in 1..N :
                (/\ j # ShockPos(t, 1)
                 /\ RLess(Zero, load_mrio_matrices(req[t].year).A[ShockPos(t, 1)][j])) =>
                    RLess(delta_x[t][j], Zero)

\* the fixture's scenario: C1-Farming shocked by 50% under the Leontief
\* closure on 2021, C1-Food Processing loses output
C3_Witness ==
    /\ pc[1] = "solved"
    /\ req[1].year = 2021
    /\ ~UsesGhosh(req[1])
    /\ req[1].shock_maps = FixtureShock
    /\ RLess(delta_x[1][LabelPos(<<"C1", "Food Processing">>)], Zero)
    /\ delta_x[1][LabelPos(<<"C1", "Farming">>)] = Rat(-90, 1)

\* the key (period, shock_set, closure) of the solve of thread t
SolveKey(t) == <<req[t].year, req[t].shock_maps, UsesGhosh(req[t])>>

\* C4: two solves of the same (period, shock_set, closure) return the same
\* delta_x, whatever requests ran between them: a result a thread still
\* holds equals the result any other thread computes for the same key.
C4_SameRequestSameDelta ==
    \A t, u \in Threads :
        (HasResult(t) /\ HasResult(u) /\ SolveKey(t) = SolveKey(u)) =>
            delta_x[t] = delta_x[u]

\* two threads hold the result of the same Leontief request
C4_Witness ==
    /\ pc[1] = "solved"
    /\ pc[2] = "attributed"
    /\ SolveKey(1) = SolveKey(2)
    /\ ~UsesGhosh(req[1])
    /\ delta_x[1] = delta_x[2]
    /\ delta_x[1][1] = Rat(-90, 1)

\* C5: the solver and the attribution never change the cached matrices:
\* whatever was computed or abandoned, every cached period holds the
\* A, X, Y, L and G it was loaded with.
C5_CacheImmutable ==
    \A y \in DOMAIN cache : cache[y] = load_mrio_matrices(y)

\* one request has been solved and attributed on a cached period while
\* another thread stands between two steps of a solve on the same period
C5_Witness ==
    /\ pc[1] = "attributed"
    /\ pc[2] = "propagate"
    /\ req[1].year = req[2].year
    /\ cache[req[1].year] = load_mrio_matrices(req[1].year)

\* C6: the matrices of a period are loaded at most once in the process
\* lifetime, also when requests for an uncached period arrive together.
C6_AtMostOneLoad ==
    \A y \in Periods : loads[y] <= 1

\* sum of the percentages of an attribution result
CausesTotal(a) == SumValues(a.causes, 1)

HomeStr(t) == LabelStr(req[t].home)

\* C7: an attribution result with a non-zero total_impact has cause
\* percentages that sum to 100, and no cause carries the target's label.
C7_NormalizedTo100 ==
    \A t \in Threads :
        (pc[t] = "attributed" /\ attribution[t].total_impact # Zero) =>
            /\ CausesTotal(attribution[t]) = Rat(100, 1)
            /\ \A k \in 1..Len(attribution[t].causes) :
                    attribution[t].causes[k].label # HomeStr(t)

\* the raw external contributions of the call of thread t sum to zero
ExternalSumZero(t) ==
    SumValues(external_causes(causes[t], req[t].home), 1) = Zero

IsSentinel(a) == a.total_impact = Zero /\ a.causes = << >>

\* C8: attribute_output_change returns the zero-impact sentinel whenever
\* |delta_x[target]| < 1e-10 or the raw external contributions sum to zero.
C8_SentinelOnZero ==
    \A t \in Threads :
        pc[t] = "attributed" =>
            ((\/ BelowTolerance(RAbs(delta_x[t][LabelPos(req[t].home)]))
              \/ ExternalSumZero(t))
                => IsSentinel(attribution[t]))

\* C9: after a single shock on s solved under the Leontief closure, the
\* attribution for a target t # s whose output changed holds the cause
\* "region - sector" of s and its percentages sum to 100.
C9_SingleShockAttributed ==
    \A t \in Threads :
        (/\ pc[t] = "attributed"
         /\ req[t].model_method = "leontief"
         /\ Len(req[t].shock_maps) = 1
         /\ req[t].home # ShockLabel(req[t].shock_maps[1])
         /\ delta_x[t][LabelPos(req[t].home)] # Zero) =>
            /\ \E k \in 1..Len(attribution[t].causes) :
                    attribution[t].causes[k].label =
                        LabelStr(ShockLabel(req[t].shock_maps[1]))
            /\ CausesTotal(attribution[t]) = Rat(100, 1)

\* the matrix the call of thread t reads its coefficients from, as the
\* claim names it
ClaimedCoefficient(t, s, h) ==
    LET D == load_mrio_matrices(req[t].year)
    IN  IF req[t].model_method = "leontief" /\ req[t].with_L THEN D.L[h][s]
        ELSE IF req[t].model_method = "ghosh" /\ req[t].with_G THEN D.G[s][h]
        ELSE D.A[s][h]

HasUsableMatrix(r) ==
    \/ r.model_method = "leontief" /\ r.with_L
    \/ r.model_method = "ghosh" /\ r.with_G
    \/ r.with_A

ShockedPositions(t) == Range(exogenous_labels(req[t].shock_maps))

\* the raw contributions of the call of thread t are those of exactly the
\* shocked sectors, each the claimed coefficient times |delta_x[s]|
ContributionsAsClaimed(t) ==
    /\ {causes[t][k].label : k \in 1..Len(causes[t])} =
            {LabelStr(Labels[s]) : s \in ShockedPositions(t)}
    /\ Len(causes[t]) = Cardinality(ShockedPositions(t))
    /\ \A s \in ShockedPositions(t) :
        \E k \in 1..Len(causes[t]) :
            /\ causes[t][k].label = LabelStr(Labels[s])
            /\ causes[t][k].value =
                    RMul(ClaimedCoefficient(t, s, LabelPos(req[t].home)),
                         RAbs(delta_x[t][s]))

\* C10 as stated: the raw contribution of the shock at s to the target t is
\* L[t,s] |delta_x[s]| for 'leontief' with L supplied, G[s,t] |delta_x[s]|
\* for 'ghosh' with G supplied and A[s,t] |delta_x[s]| in every other call;
\* exactly the sectors of the shock set contribute.
C10_OtherwiseFromA ==
    \A t \in Threads : pc[t] = "normalize" => ContributionsAsClaimed(t)

\* C10 as amended: the contributions are as claimed in the calls that supply
\* the matrix their branch reads (the fallback reads A only when A_df is
\* given); a call that supplies none of them has no contribution at all.
C10_RawContribution ==
    \A t \in Threads :
        pc[t] = "normalize" =>
            IF HasUsableMatrix(req[t])
            THEN ContributionsAsClaimed(t)
            ELSE causes[t] = << >>

\* a 'lenzen' call with only A supplied attributes two shocks, one of them
\* with a non-zero first-order contribution
C10_Witness ==
    /\ pc[1] = "normalize"
    /\ req[1].model_method = "lenzen"
    /\ ~req[1].with_L /\ ~req[1].with_G /\ req[1].with_A
    /\ Len(causes[1]) = 2
    /\ causes[1][1].value # Zero

\* the external raw contributions of the call of thread t, in dict order
ExternalRaw(t) == external_causes(causes[t], req[t].home)

\* the place in ExternalRaw(t) of the k-th cause of the result
RawPos(t, k) ==
    CHOOSE i \in 1..Len(ExternalRaw(t)) :
        ExternalRaw(t)[i].label = attribution[t].causes[k].label

\* C11: the causes of an attribution result are ordered by contribution
\* descending, and causes of equal contribution keep the relative order
\* they had before the sort.
C11_StableDescending ==
    \A t \in Threads :
        (pc[t] = "attributed" /\ causes[t] # None) =>
            LET ext == ExternalRaw(t)
                res == attribution[t].causes
            IN  /\ Len(res) = Len(ext)
                /\ {res[k].label : k \in 1..Len(res)} =
                        {ext[i].label : i \in 1..Len(ext)}
                /\ \A j, k \in 1..Len(res) :
                    j < k =>
                        /\ ~RLess(res[j].value, res[k].value)
                        /\ ~RLess(ext[RawPos(t, j)].value, ext[RawPos(t, k)].value)
                        /\ (ext[RawPos(t, j)].value = ext[RawPos(t, k)].value
                                => RawPos(t, j) < RawPos(t, k))

\* a result with two causes of equal raw contribution
C11_Witness ==
    /\ pc[1] = "attributed"
    /\ causes[1] # None
    /\ Len(attribution[1].causes) = 2
    /\ ExternalRaw(1)[1].value = ExternalRaw(1)[2].value

\* a result whose causes the sort has reordered
C11_Reordered ==
    /\ pc[1] = "attributed"
    /\ causes[1] # None
    /\ Len(attribution[1].causes) = 2
    /\ RLess(ExternalRaw(1)[1].value, ExternalRaw(1)[2].value)

\* thread t has answered a portfolio-mode run
PortfolioAnswered(t) == pc[t] = "attributed" /\ IsPortfolio(req[t])

\* |sum of the weights - 100| of the request of thread t
WeightDeviation(t) ==
    RAbs(RSub(total_weight(req[t].portfolio_data), Rat(100, 1)))

\* C12: in portfolio mode a holdings list whose weights sum to 100 within
\* 0.01 is accepted and aggregated, and a list whose sum deviates from 100 by
\* more than 0.01 gets the portfolio weight error instead of aggregated values.
C12_WeightTolerance ==
    \A t \in Threads :
        PortfolioAnswered(t) =>
            IF RLess(Rat(1, 100), WeightDeviation(t))
            THEN response[t].title = "Portfolio Error"
            ELSE response[t].title = "results"

\* n/d <= 1e-8 + 1e-5 * 100 = 100001 / 10^8, as n <= floor(100001 d / 10^8)
WithinIscloseTolerance(dev) == dev[1] <= (100001 * dev[2]) \div 100000000

\* C12 as amended: a non-empty holdings list is accepted and aggregated when
\* its weights sum to 100 within the tolerance of np.isclose,
\* 1e-8 + 1e-5 * 100, and gets the 'Portfolio Error' result instead of
\* aggregated values when the sum deviates by more.
C12_IscloseTolerance ==
    \A t \in Threads :
        PortfolioAnswered(t) =>
            IF WithinIscloseTolerance(WeightDeviation(t))
            THEN /\ response[t].title = "results"
                 /\ DOMAIN response[t] =
                        {"title", "portfolio_before", "portfolio_after",
                         "percentage_change", "breakdown", "attribution_dict"}
            ELSE response[t] = [title |-> "Portfolio Error"]

\* a list whose weights sum to 100.0005 was accepted and aggregated
C12_Witness ==
    /\ PortfolioAnswered(1)
    /\ WeightDeviation(1) = Rat(1, 2000)
    /\ response[1].title = "results"

\* a list whose weights sum to 110 got the error
C12_Rejected ==
    /\ PortfolioAnswered(1)
    /\ WeightDeviation(1) = Rat(10, 1)
    /\ response[1].title = "Portfolio Error"

\* the permutations of 1..n
IndexPermutations(n) ==
    {f \in [1..n -> 1..n] : \A i, j \in 1..n : f[i] = f[j] => i = j}

Permuted(portfolio_data, f) ==
    Vector([i \in 1..Len(portfolio_data) |-> portfolio_data[f[i]]])

\* the aggregated values of a portfolio response
Aggregate(res) ==
    IF res.title = "results"
    THEN <<res.portfolio_before, res.portfolio_after, res.percentage_change>>
    ELSE <<res.title>>

\* C13: the aggregated portfolio result (weighted baseline, weighted
\* post-shock value, percentage change) is the same for every permutation of
\* the holdings list.
C13_OrderInsensitive ==
    \A t \in Threads :
        PortfolioAnswered(t) =>
            \A f \in IndexPermutations(Len(req[t].portfolio_data)) :
                Aggregate(PortfolioResult(
                    [req[t] EXCEPT !.portfolio_data = Permuted(@, f)],
                    cache[req[t].year], delta_x[t])) = Aggregate(response[t])

\* two different holdings with different outputs were aggregated and the
\* portfolio lost value
C13_Witness ==
    /\ PortfolioAnswered(1)
    /\ response[1].title = "results"
    /\ Len(req[1].portfolio_data) = 2
    /\ LET a == LabelPos(HoldingLabel(req[1].portfolio_data[1]))
           b == LabelPos(HoldingLabel(req[1].portfolio_data[2]))
       IN  /\ x_old(1)[a] # x_old(1)[b]
           /\ delta_x[1][a] # delta_x[1][b]
    /\ response[1].percentage_change # Zero

\* sum over the holdings of weight_i / 100 * v[i]
HoldingsSum(t, v) ==
    LET h == req[t].portfolio_data
    IN  RSum([i \in 1..Len(h) |->
                RMul(RDiv(h[i].weight, Rat(100, 1)),
                     v[LabelPos(HoldingLabel(h[i]))])], 1, Len(h))

\* C14: for a valid portfolio baseline = sum_i weight_i/100 * x_old[i],
\* post-shock value = baseline + sum_i weight_i/100 * delta_x[i], percentage
\* change = 100 * (post-shock - baseline) / baseline, 0 when the baseline is
\* not above 1e-9; the totals of create_portfolio_breakdown_display are the
\* same.
C14_AggregationFormulas ==
    \A t \in Threads :
        (PortfolioAnswered(t) /\ response[t].title = "results") =>
            LET res == response[t]
                baseline == HoldingsSum(t, x_old(t))
                post == RAdd(baseline, HoldingsSum(t, delta_x[t]))
                change == IF AboveEpsilon(baseline)
                          THEN RDiv(RMul(Rat(100, 1), RSub(post, baseline)), baseline)
                          ELSE Zero
            IN  /\ res.portfolio_before = baseline
                /\ res.portfolio_after = post
                /\ res.percentage_change = change
                /\ res.breakdown.total_before = baseline
                /\ res.breakdown.total_after = post
                /\ res.breakdown.total_rel_change = change

\* a valid two-holding portfolio that lost value
C14_Witness ==
    /\ PortfolioAnswered(1)
    /\ response[1].title = "results"
    /\ Len(req[1].portfolio_data) = 2
    /\ RLess(response[1].portfolio_after, response[1].portfolio_before)
    /\ RLess(response[1].percentage_change, Zero)

\* a valid portfolio in a period without output: the baseline is 0
C14_ZeroBaseline ==
    /\ PortfolioAnswered(1)
    /\ response[1].title = "results"
    /\ response[1].portfolio_before = Zero
    /\ response[1].percentage_change = Zero

\* the attribution of the k-th holding of thread t on its own
HoldingAttribution(t, k) ==
    LET D == cache[req[t].year]
    IN  attribute_output_change(req[t].model_method, delta_x[t],
            req[t].shock_maps, HoldingLabel(req[t].portfolio_data[k]),
            D.L, D.G, D.A).causes

\* sum over the holdings of weight_k / total weight times the holding's
\* percentage for the cause
WeightNormalizedSum(t, label) ==
    LET h == req[t].portfolio_data
    IN  RSum([k \in 1..Len(h) |->
                RMul(RDiv(h[k].weight, total_weight(h)),
                     CauseValue(HoldingAttribution(t, k), label))], 1, Len(h))

\* some holding is not a shocked sector and its output changed
HoldsAffectedSector(t) ==
    \E k \in 1..Len(req[t].portfolio_data) :
        LET p == LabelPos(HoldingLabel(req[t].portfolio_data[k]))
        IN  p \notin ShockedPositions(t) /\ delta_x[t][p] # Zero

\* C15: the portfolio attribution is the weight-normalized sum of the
\* holdings' individual attribution vectors, re-normalized so that the cause
\* percentages sum to 100.
C15_PortfolioAttribution ==
    \A t \in Threads :
        (/\ PortfolioAnswered(t)
         /\ response[t].title = "results"
         /\ HoldsAffectedSector(t)) =>
            LET res == response[t].attribution_dict.causes
                total == RSum([s \in 1..N |->
                            IF s \in ShockedPositions(t)
                            THEN WeightNormalizedSum(t, LabelStr(Labels[s]))
                            ELSE Zero], 1, N)
            IN  /\ SumValues(res, 1) = Rat(100, 1)
                /\ \A k \in 1..Len(res) :
                    RMul(res[k].value, total) =
                        RMul(Rat(100, 1), WeightNormalizedSum(t, res[k].label))

\* the (region, sector, magnitude) triples of a shock list
Triples(shocks) ==
    {<<shocks[k].region, shocks[k].sector, shocks[k].magnitude>> :
        k \in 1..Len(shocks)}

\* every list the builder can have put in the store
StoreUniverse ==
    SeqsUpTo({in \in BuilderInputs :
                in.region # "" /\ in.sector # "" /\ in.magnitude # NoMagnitude}, MaxStore) \cup {<< >>}

StoreInUniverse == scenario_store \in StoreUniverse

\* C16: exporting a non-empty scenario with export_scenario and importing
\* the exported text through the upload path of update_scenario_store leaves
\* a store with the same set of (region, sector, magnitude) triples as the
\* exported scenario, whatever the store held before the import.
C16_RoundTrip ==
    [][(/\ download # NoFile
        /\ upload_contents' # upload_contents
        /\ upload_contents' = DataUrl(download.content))
            => \A exported \in StoreUniverse :
                    export_scenario(exported) = download
                        => Triples(scenario_store') = Triples(exported)]_vars

\* the export of a two-shock scenario with a shock on NO has been imported
C16_Witness ==
    /\ download # NoFile
    /\ upload_contents = DataUrl(download.content)
    /\ Len(scenario_store) = 2
    /\ scenario_store = yaml_safe_load(download.content)
    /\ \E k \in 1..2 : scenario_store[k].region = "NO"
    /\ export_scenario(scenario_store) = download
\* ---- C17
\* the thread has been handed a shock set that the solver has yet to take up
HandedToSolver(t) == pc[t] \in {"lookup", "loading", "partition"}

UniqueKeys(shocks) ==
    \A j, k \in 1..Len(shocks) :
        ShockLabel(shocks[j]) = ShockLabel(shocks[k]) => j = k

\* C17: the shock set handed to the solver has unique (region, sector) keys,
\* whatever sequence of add, delete, clear and YAML imports built the
\* scenario store and whatever the expansion produced.
C17_UniqueKeys ==
    \A t \in Threads : HandedToSolver(t) => UniqueKeys(req[t].shock_maps)

\* ---- C18
\* the countries the claim lets a region resolve to
ResolvedCountries(R, year) ==
    LET present == Range(load_labels_data(year).countries)
    IN  IF R = "All" THEN present
        ELSE IF R \in DOMAIN REGION_GROUPS
             THEN Range(REGION_GROUPS[R]) \cap present
             ELSE {R}

\* the sectors the chosen ecosystem service depends on
ServiceSectors(service) ==
    UNION {Range(EncoreData[k].sectors) :
            k \in {j \in 1..Len(EncoreData) : EncoreData[j].service = service}}

\* a sector request, or an ecosystem request that names a service
NamesItsSectors(c) ==
    c.shock_type = "sector" \/ c.ecosystem_service # None

RequestedSectors(c) ==
    IF c.shock_type = "ecosystem" THEN ServiceSectors(c.ecosystem_service)
    ELSE {c.shock_sector}

Occurrences(shocks, shock) ==
    Cardinality({k \in 1..Len(shocks) : shocks[k] = shock})

C18_EcosystemGlobal ==
    /\ HandedToSolver(1)
    /\ controls.shock_region = "All" /\ controls.shock_type = "ecosystem"
    /\ controls.ecosystem_service = "Pollination"
    /\ Len(req[1].shock_maps) = 2 * Len(load_labels_data(controls.year).countries)

\* ---- C19
\* the solver has taken the thread's shock set past its label lookup
SolverRan(t) ==
    pc[t] \in {"reduce", "propagate", "delta_y", "solved", "normalize", "attributed"}

ValidShockSet(shocks) ==
    /\ shocks # << >>
    /\ \A k \in 1..Len(shocks) :
        /\ ~RLess(shocks[k].magnitude, Zero)
        /\ ~RLess(One, shocks[k].magnitude)

\* C19: the solver never runs on (and no delta_x is produced for) an empty
\* shock set or a shock set with a magnitude outside [0,1], whether the
\* shocks come from the single controls, the builder or a YAML import.
C19_InvalidShockRejected ==
    \A t \in Threads : SolverRan(t) => ValidShockSet(req[t].shock_maps)

\* ---- C20
UnknownLabel(shocks) ==
    \E k \in 1..Len(shocks) : LabelPos(ShockLabel(shocks[k])) = 0

\* C20: a shock on a (region, sector) that the period's label universe does
\* not hold ends the solve in a typed result, never in an exception that
\* propagates out of the solver.
C20_TypedUnknownSector ==
    \A t \in Threads :
        (pc[t] \in {"raised", "attributed"} /\ UnknownLabel(req[t].shock_maps))
            => pc[t] # "raised"

\* ---- C21
\* the block of the inverse over the shocked labels cannot be inverted
SingularBlock(t) ==
    /\ ~UnknownLabel(req[t].shock_maps)
    /\ LET exo == exogenous_labels(req[t].shock_maps)
           D == cache[req[t].year]
       IN  IF UsesGhosh(req[t])
           THEN LinalgInv(Block(D.G, exo, exo)) = "LinAlgError"
           ELSE LinalgInv(Block(D.L, exo, exo)) = "LinAlgError"

\* C21: a singular exogenous block (L_mm under Leontief, G_mm under Ghosh)
\* ends the solve in a typed result for that request, never in an exception
\* that propagates out of the solver.
C21_TypedSingular ==
    \A t \in Threads :
        (pc[t] \in {"raised", "attributed"} /\ SingularBlock(t))
            => pc[t] # "raised"

\* ---- C22
\* C22: loading a period without a dataset is a recoverable failure: no
\* thread and no process is ended by it, nothing is cached for the period
\* and no substitute dataset appears in its directory.
C22_PeriodNotFound ==
    /\ \A t \in Threads : pc[t] # "exited"
    /\ MissingPeriod \notin DOMAIN cache
    /\ disk[MissingPeriod] = {}

\* ---- C23
\* the total the store would hold after adding the selection, an existing
\* holding of the same key counted as replaced
TotalAfterAdd ==
    total_weight(AddOrUpdateHolding(portfolio_ui.data, portfolio_ui.region,
                                    portfolio_ui.sector, portfolio_ui.weight))

\* C23: whenever adding the selected (region, sector, weight) would bring
\* the portfolio's total weight above 100, the Add button is disabled.
C23_DisabledWhenOverweight ==
    (/\ portfolio_ui.weight # NoWeight
     /\ portfolio_ui.region # None
     /\ RLess(Rat(100, 1), TotalAfterAdd))
        => portfolio_ui.disabled

\* the store after a click on the enabled button holds more than 100
C23_OverweightAdded ==
    /\ ~portfolio_ui.disabled
    /\ RLess(Rat(100, 1), total_weight(portfolio_ui.data))
    /\ Len(portfolio_ui.data) = 2

\* ---- C24
\* (I - A_nn)^-1 computed from A itself
EndogenousInverse(t) ==
    LET endo == endogenous_labels(req[t].shock_maps)
    IN  LinalgInv(Block(IdentityMinus(cache[req[t].year].A), endo, endo))

\* C24: the matrix L_nn - L_nm L_mm^-1 L_mn that run_physical_risk derives
\* is the Leontief inverse (I - A_nn)^-1 of the endogenous subsystem.
C24_ReducedInverse ==
    \A t \in Threads :
        (pc[t] = "propagate" /\ ~UsesGhosh(req[t]))
            => inverse[t] = EndogenousInverse(t)

\* witness: two shocked sectors in the economy with feedback loops, where
\* the derived matrix differs from the block L_nn
C24_Witness ==
    /\ pc[1] = "propagate" /\ ~UsesGhosh(req[1])
    /\ req[1].year = 2020
    /\ Len(req[1].shock_maps) = 2
    /\ inverse[1] = EndogenousInverse(1)
    /\ inverse[1] # Block(cache[2020].L, endogenous_labels(req[1].shock_maps),
                          endogenous_labels(req[1].shock_maps))

\* ---- C25
GhoshSolved(t) == pc[t] \in {"solved", "normalize", "attributed"} /\ UsesGhosh(req[t])

\* delta_x_m^T (G_mm^-1 G_mn), from the delta_x the solver returned at the
\* shocked sectors
ForwardPropagated(t) ==
    LET exo == exogenous_labels(req[t].shock_maps)
        endo == endogenous_labels(req[t].shock_maps)
        G == cache[req[t].year].G
        weights == MatMul(LinalgInv(Block(G, exo, exo)), Block(G, exo, endo), Len(endo))
    IN  VecMat([k \in 1..Len(exo) |-> delta_x[t][exo[k]]], weights, Len(endo))

\* C25: under the Ghosh closure delta_x at the endogenous sectors is
\* delta_x_m^T G_mm^-1 G_mn; for a single shock at s this is
\* delta_x[j] = delta_x[s] * G[s,j] / G[s,s] at every other sector j.
C25_GhoshPropagation ==
    \A t \in Threads :
        GhoshSolved(t)
            => LET exo == exogenous_labels(req[t].shock_maps)
                   endo == endogenous_labels(req[t].shock_maps)
                   G == cache[req[t].year].G
               IN  /\ \A j \in 1..Len(endo) :
                        delta_x[t][endo[j]] = ForwardPropagated(t)[j]
                   /\ Len(exo) = 1
                        => \A j \in 1..N :
                            j # exo[1]
                                => delta_x[t][j] =
                                    RDiv(RMul(delta_x[t][exo[1]], G[exo[1]][j]),
                                         G[exo[1]][exo[1]])

\* witness: a single full shock on Farming of 2020 reaches Food Processing,
\* scaled by G[s,s] = 8/7
C25_Witness ==
    /\ GhoshSolved(1)
    /\ req[1].year = 2020
    /\ req[1].shock_maps = <<[region |-> "C1", sector |-> "Farming", magnitude |-> One]>>
    /\ delta_x[1][1] = Rat(-16, 1)
    /\ delta_x[1][2] = RDiv(RMul(Rat(-16, 1), Rat(9, 14)), Rat(8, 7))
    /\ cache[2020].G[1][1] = Rat(8, 7)

\* ---- C26
Complete(in) == in.region # "" /\ in.sector # "" /\ in.magnitude # NoMagnitude

SameKey(shock, in) == shock.region = in.region /\ shock.sector = in.sector

\* C26: an add with region, sector and magnitude set overwrites the
\* magnitude of the shock with that key in place, or appends the new shock
\* when the key is new; a delete removes exactly the shock at its index, or
\* nothing when the index is past the end; clear empties the store; every
\* other shock keeps its place and value.
C26_StoreFrame ==
    [][/\ ClearScenario => scenario_store' = << >>
       /\ \A i \in 1..MaxStore :
            DeleteShock(i)
                => scenario_store' =
                    [k \in 1..(Len(scenario_store) - 1) |->
                        IF k < i THEN scenario_store[k] ELSE scenario_store[k + 1]]
       /\ \A i \in 1..MaxStore : DeleteStale(i) => scenario_store' = scenario_store
       /\ \A in \in BuilderInputs :
            (Complete(in) /\ AddShock(in))
                => IF \E k \in 1..Len(scenario_store) : SameKey(scenario_store[k], in)
                   THEN /\ Len(scenario_store') = Len(scenario_store)
                        /\ \A k \in 1..Len(scenario_store) :
                            scenario_store'[k] =
                                IF SameKey(scenario_store[k], in)
                                THEN [region |-> in.region, sector |-> in.sector,
                                      magnitude |-> in.magnitude]
                                ELSE scenario_store[k]
                   ELSE scenario_store' =
                            scenario_store \o <<[region |-> in.region,
                                                 sector |-> in.sector,
                                                 magnitude |-> in.magnitude]>>]_vars

\* witness: C1-Farming, added at 50 percent before C2-Mining, was added
\* again at 20 percent and kept its place
C26_Witness ==
    /\ scenario_store =
            <<[region |-> "C1", sector |-> "Farming", magnitude |-> Rat(20, 1)],
              [region |-> "C2", sector |-> "Mining", magnitude |-> Rat(50, 1)]>>
    /\ download # NoFile
    /\ download.content = yaml_dump(
            <<[region |-> "C1", sector |-> "Farming", magnitude |-> Rat(50, 1)],
              [region |-> "C2", sector |-> "Mining", magnitude |-> Rat(50, 1)]>>)

\* ---- C27
AllMagnitudesZero(shocks) == \A k \in 1..Len(shocks) : shocks[k].magnitude = Zero

\* C27: on the stored baselines (x_old = L y) a shock set whose magnitudes
\* are all 0 yields delta_x = 0 at every sector, under both closures.
C27_ZeroShockNoChange ==
    \A t \in Threads :
        (HasResult(t) /\ AllMagnitudesZero(req[t].shock_maps))
            => \A i \in 1..N : delta_x[t][i] = Zero

\* the same statement for the Ghosh closure alone
C27_ZeroShockGhosh ==
    \A t \in Threads :
        (HasResult(t) /\ UsesGhosh(req[t]) /\ AllMagnitudesZero(req[t].shock_maps))
            => \A i \in 1..N : delta_x[t][i] = Zero

\* ---- C28
\* C28: on the stored baselines (A >= 0, y >= 0, x_old = L y) and for
\* magnitudes in [0,1] the post-shock output x_old + delta_x is >= 0 at
\* every sector, under both closures.
C28_NonNegativeOutput ==
    \A t \in Threads :
        HasResult(t)
            => \A i \in 1..N : ~RLess(RAdd(x_old(t)[i], delta_x[t][i]), Zero)

\* the same statement for the Ghosh closure alone
C28_NonNegativeGhosh ==
    \A t \in Threads :
        (HasResult(t) /\ UsesGhosh(req[t]))
            => \A i \in 1..N : ~RLess(RAdd(x_old(t)[i], delta_x[t][i]), Zero)

\* ---- C29
\* C29: an 'Add Shock' click with a missing region, sector or magnitude
\* leaves the scenario store unchanged, whatever was uploaded before.
C29_IncompleteAddIgnored ==
    [][\A in \in BuilderInputs :
            (~Complete(in) /\ AddShock(in)) => scenario_store' = scenario_store]_vars

\* ---- C30
\* Run was clicked on the ecosystem shock type with an empty scenario store
EcosystemRun(t) ==
    /\ HandedToSolver(t)
    /\ scenario_store = << >>
    /\ controls.shock_type = "ecosystem"

\* C30: a run on the ecosystem shock type with an empty scenario store hands
\* the solver shocks on the sectors of the selected ecosystem service only;
\* with no service selected it hands the solver nothing, in particular not
\* the sector left in the hidden shock-sector dropdown.
C30_NoSectorSubstituted ==
    \A t \in Threads :
        EcosystemRun(t)
            => \A k \in 1..Len(req[t].shock_maps) :
                    req[t].shock_maps[k].sector
                        \in ServiceSectors(controls.ecosystem_service)

====
